---------------------------- MODULE Spec2Model ----------------------------
(***************************************************************************)
(* hydro-sense: animation and hardware-coordination subsystem.             *)
(*                                                                         *)
(*   relay.py            Relay / RelayManager (auto-shutoff, watchdog)     *)
(*   water_level.py      WaterLevelSensor (debounced float switch)         *)
(*   mock_hardware.py    MockWaterLevelSensor.set_level                    *)
(*   pump_automation.py  PumpAutomation (duty cycle, safety trip)          *)
(*   main.py             run_async / active_threads                        *)
(*   animations.py, gradient.py   the animation functions                  *)
(*   led.py              LedStrip (hardware-access lock, one-shot calls)   *)
(*                                                                         *)
(* Time is an integer number of seconds (now); the sensor's monitor loop   *)
(* has its own clock counted in poll periods (stime).  None is -1.         *)
(***************************************************************************)
EXTENDS Integers, FiniteSets, Sequences, TLC

\* ------------------------------------------------------------------ bounds
MaxTime == 6          \* the clock `now' stops advancing here
MaxPolls == 5         \* the sensor clock `stime' stops advancing here
MaxTasks == 3         \* animation threads created in one behaviour
MaxCallbacks == 3     \* on_state_change invocations recorded
MaxStops == 3         \* longest list of colour stops rendered
MaxPixels == 3        \* largest pixel_count rendered
PosScale == 2         \* positions and offsets are multiples of 1 / PosScale

\* --------------------------------------------------- configuration values
None == -1
MaxOn == 2            \* max_on_time of the relay when it is limited
on_interval == 2      \* PumpAutomation(on_interval=...)
off_interval == 1     \* PumpAutomation(off_interval=...)
max_runtime == 3      \* PumpAutomation(max_runtime=...)
debounce_time == 2    \* WaterLevelSensor(debounce_time=...), in poll periods
active_low == TRUE    \* RelayConfig.active_low
active_high == TRUE   \* WaterLevelSensor(active_high=...)
FiniteDur == 1        \* a duration > 0, counted in frames (duration * FPS)

VARIABLES
    now,               \* wall clock, seconds
    last_op,           \* label of the operation that made the last step
    \* ---- relay (the pump relay) ----
    relay,             \* [state, pin, shutoff_timer, shutoff_time]
    max_on_time,       \* RelayConfig.max_on_time
    timer_cb,          \* _auto_shutoff callbacks fired and not yet run
    on_since,          \* time at which the relay last became ON (None if OFF)
    watchdog_running,  \* RelayManager.watchdog_running is set
    \* ---- water level sensor ----
    raw,               \* what GPIO.input(pin) == HIGH returns right now
    stime,             \* sensor clock (poll periods)
    mon_pc,            \* position of _monitor_loop
    stable_gpio_state, \* local of _monitor_loop
    stable_since,      \* local of _monitor_loop
    current_level,     \* WaterLevelSensor.current_level
    callbacks,         \* sequence of levels passed to on_state_change
    \* ---- pump automation ----
    mode, running_since, total_runtime, cycle_count, last_action_time,
    auto_lock,         \* PumpAutomation.lock: "free" or "loop"
    \* ---- animations ----
    active_threads,    \* name -> thread id (0: no entry)
    tpc,               \* thread id -> position of the thread
    tname, tdur,       \* thread id -> name / duration it was started with
    cancel,            \* thread id -> its cancel event is set
    frames,            \* thread id -> frames written (saturating)
    anim_lock,         \* holder of leds.anim_lock (0: free)
    strip,             \* thread whose frame the strip shows (0: none)
    call,              \* caller -> [pc, name, dur, target] of its run_async
    \* ---- LED strip ----
    hw_lock,           \* holder of LedStrip.lock (0: free, t: animation
                       \* thread t, -w: one-shot writer w)
    writing,           \* threads inside a strip write (setPixelColor .. show)
    shot,              \* writer -> position of its one-shot LedStrip call
    \* ---- construction and start of the pump automation ----
    automation,        \* "new", "ok" (constructed) or "ValueError"
    automation_thread, \* "none" or "alive"
    \* ---- one call of render_gradient ----
    stops,             \* the list of ColorStop given
    pixel_count,       \* the number of pixels asked for
    offset,            \* the offset given, in units of 1 / PosScale
    colors,            \* what the call returned
    \* ---- LEDState ----
    led_state,         \* the attributes of the LEDState instance
    led_state_lock,    \* led_state._lock: "free" or the thread holding it
    committed,         \* led_state as the last finished update left it
    upd,               \* updater -> position in its update() call
    rd,                \* the reader: position, values read, result
    \* ---- the OFF command ----
    off_cmd,           \* [pc, path, join, before] of the OFF command
    dark,              \* threads started before an OFF command that ended
    \* ---- the sensor lock and the on_state_change callback ----
    sensor_kind,       \* "real" (WaterLevelSensor) or "mock"
    sensor_lock,       \* sensor.lock: "free" or "update" (held by the
                       \* thread inside _update_level / set_level)
    cb,                \* position of the on_state_change callback
    getter,            \* position of another thread's get_level() call
    \* ---- threads and the locks they hold ----
    mock_mode,         \* MOCK_MODE: RelayManager is MockRelayManager
    lk_op,             \* thread -> the operation it is in ("idle": none)
    lk_pc,             \* thread -> next step of the operation's lock program
    lock_owner         \* lock -> thread holding it ("none": free)

relayVars == <<relay, max_on_time, timer_cb, on_since, watchdog_running>>
sensorVars == <<raw, stime, mon_pc, stable_gpio_state, stable_since,
                current_level, callbacks>>
pumpVars == <<mode, running_since, total_runtime, cycle_count,
              last_action_time, auto_lock>>
animVars == <<active_threads, tpc, tname, tdur, cancel, frames, anim_lock,
              strip, call>>
ledVars == <<hw_lock, writing, shot>>
ctorVars == <<automation, automation_thread>>
gradVars == <<stops, pixel_count, offset, colors>>
stateVars == <<led_state, led_state_lock, committed, upd, rd>>
offVars == <<off_cmd, dark>>
cbVars == <<sensor_kind, sensor_lock, cb, getter>>
lkVars == <<mock_mode, lk_op, lk_pc, lock_owner>>
otherVars == <<ctorVars, gradVars, stateVars, offVars, cbVars, lkVars>>
vars == <<now, last_op, relayVars, sensorVars, pumpVars, animVars, ledVars,
          otherVars>>

Max(a, b) == IF a >= b THEN a ELSE b
Min(a, b) == IF a <= b THEN a ELSE b

(***************************************************************************)
(* Relay (relay.py)                                                        *)
(***************************************************************************)
\* _set_gpio: drive the pin to the level that `s' maps to.
GpioLevel(s) ==
    IF active_low THEN (IF s = "ON" THEN "LOW" ELSE "HIGH")
                  ELSE (IF s = "ON" THEN "HIGH" ELSE "LOW")

set_gpio(r, s) == [r EXCEPT !.pin = GpioLevel(s)]

\* _cancel_shutoff_timer: a Timer reference is truthy armed or finished.
cancel_shutoff_timer(r) ==
    IF r.shutoff_timer # "none"
    THEN [r EXCEPT !.shutoff_timer = "none", !.shutoff_time = None]
    ELSE r

start_shutoff_timer(r, t) ==
    IF max_on_time <= 0 THEN r
    ELSE [cancel_shutoff_timer(r) EXCEPT !.shutoff_time = t + max_on_time,
                                         !.shutoff_timer = "armed"]

get_time_remaining(r, t) ==
    IF r.shutoff_time = None THEN None ELSE Max(0, r.shutoff_time - t)

turn_on(r, t) ==
    IF r.state = "ON" THEN r
    ELSE start_shutoff_timer([set_gpio(r, "ON") EXCEPT !.state = "ON"], t)

turn_off(r) ==
    IF r.state = "OFF" THEN r
    ELSE [set_gpio(cancel_shutoff_timer(r), "OFF") EXCEPT !.state = "OFF"]

set_state(r, s, t) == IF s = "ON" THEN turn_on(r, t) ELSE turn_off(r)

\* toggle writes pin and state only: it neither starts nor cancels the timer.
toggle(r) ==
    LET new_state == IF r.state = "ON" THEN "OFF" ELSE "ON"
    IN  [set_gpio(r, new_state) EXCEPT !.state = new_state]

\* the sweep's deadline check: a relay found ON with no time remaining is
\* forced OFF
watchdog_deadline(r, t) ==
    LET tr == get_time_remaining(r, t)
    IN  IF max_on_time > 0 /\ r.state = "ON" /\ tr # None /\ tr <= 0
        THEN [set_gpio(cancel_shutoff_timer(r), "OFF") EXCEPT !.state = "OFF"]
        ELSE r

\* the sweep's pin check finds GPIO.input(pin) != expected_gpio
gpio_mismatch(r) == r.pin # GpioLevel(r.state)

\* (mutation) the sweep enforces the deadline but does not verify the pin
watchdog_check_NoVerify(r, t) == watchdog_deadline(r, t)

\* one relay's share of a watchdog sweep (body of `with relay.lock')
watchdog_check(r, t) ==
    LET r1 == watchdog_deadline(r, t)
    IN  IF gpio_mismatch(r1) THEN set_gpio(r1, r1.state) ELSE r1

\* ghost: the time the relay became ON
OnSince(r2) ==
    IF r2.state = "OFF" THEN None
    ELSE IF relay.state = "OFF" THEN now ELSE on_since

RelayInit(m) ==
    /\ relay = [state |-> "OFF", pin |-> GpioLevel("OFF"),
                shutoff_timer |-> "none", shutoff_time |-> None]
    /\ max_on_time = m
    /\ timer_cb = 0
    /\ on_since = None
    /\ watchdog_running = TRUE

\* (mutation) turn_on reports a change also when the relay was ON already
turn_on_returns_Always(r) == "True"

\* return values: turn_on / turn_off tell whether the state changed,
\* set_state passes that on, toggle returns the new state
turn_on_returns(r) == IF r.state = "ON" THEN "False" ELSE "True"

turn_off_returns(r) == IF r.state = "OFF" THEN "False" ELSE "True"

relay_returns(op, r) ==
    CASE op \in {"turn_on", "set_on"} -> turn_on_returns(r)
      [] op \in {"turn_off", "set_off"} -> turn_off_returns(r)
      [] op = "toggle" -> toggle(r).state

\* an external relay command (HTTP / MQTT): turn_on, turn_off, set_state,
\* toggle; the step is labelled <<"relay", operation, value returned>>
RelayCommand ==
    /\ \E op \in {"turn_on", "turn_off", "set_on", "set_off", "toggle"} :
         /\ relay' = CASE op = "turn_on"  -> turn_on(relay, now)
                      [] op = "turn_off" -> turn_off(relay)
                      [] op = "set_on"   -> set_state(relay, "ON", now)
                      [] op = "set_off"  -> set_state(relay, "OFF", now)
                      [] op = "toggle"   -> toggle(relay)
         /\ last_op' = <<"relay", op, relay_returns(op, relay)>>
    /\ on_since' = OnSince(relay')
    /\ UNCHANGED <<now, max_on_time, watchdog_running, timer_cb, sensorVars,
                   pumpVars, animVars, ledVars, otherVars>>

\* threading.Timer(max_on_time, _auto_shutoff) reaches its deadline
TimerExpire ==
    /\ relay.shutoff_timer = "armed"
    /\ now >= relay.shutoff_time
    /\ relay' = [relay EXCEPT !.shutoff_timer = "fired"]
    /\ timer_cb' = timer_cb + 1
    /\ last_op' = <<"timer_expire", "">>
    /\ UNCHANGED <<now, max_on_time, watchdog_running, on_since, sensorVars,
                   pumpVars, animVars, ledVars, otherVars>>

\* _auto_shutoff: the callback gets the relay lock and calls turn_off
AutoShutoff ==
    /\ timer_cb > 0
    /\ timer_cb' = timer_cb - 1
    /\ relay' = turn_off(relay)
    /\ on_since' = OnSince(relay')
    /\ last_op' = <<"auto_shutoff", "">>
    /\ UNCHANGED <<now, max_on_time, watchdog_running, sensorVars, pumpVars,
                   animVars, ledVars, otherVars>>

\* one iteration of RelayManager._watchdog_loop; the step is labelled
\* "recovery" if the pin check found a mismatch
WatchdogSweep ==
    /\ watchdog_running
    /\ relay' = watchdog_check(relay, now)
    /\ on_since' = OnSince(relay')
    /\ last_op' = <<"watchdog",
                    IF gpio_mismatch(watchdog_deadline(relay, now))
                    THEN "recovery" ELSE "">>
    /\ UNCHANGED <<now, max_on_time, watchdog_running, timer_cb, sensorVars,
                   pumpVars, animVars, ledVars, otherVars>>

\* Relay.cleanup (if GPIO_AVAILABLE): cancel the timer, drive the pin to the
\* OFF level, release the channel.  self.state is not assigned.
cleanup(r) == set_gpio(cancel_shutoff_timer(r), "OFF")

\* RelayManager.cleanup: stop the watchdog, then clean up every relay
Cleanup ==
    /\ watchdog_running
    /\ watchdog_running' = FALSE
    /\ relay' = cleanup(relay)
    /\ on_since' = OnSince(relay')
    /\ last_op' = <<"cleanup", "">>
    /\ UNCHANGED <<now, max_on_time, timer_cb, sensorVars, pumpVars, animVars,
                   ledVars, otherVars>>

\* the level of the output pin is altered from outside the program
PinAltered ==
    /\ relay' = [relay EXCEPT !.pin = IF @ = "LOW" THEN "HIGH" ELSE "LOW"]
    /\ last_op' = <<"pin_altered", "">>
    /\ UNCHANGED <<now, max_on_time, watchdog_running, timer_cb, on_since,
                   sensorVars, pumpVars, animVars, ledVars, otherVars>>

\* a second passes
Advance ==
    /\ now < MaxTime
    /\ now' = now + 1
    /\ last_op' = <<"advance", "">>
    /\ UNCHANGED <<relayVars, sensorVars, pumpVars, animVars, ledVars, otherVars>>

(***************************************************************************)
(* Water level sensor (water_level.py, mock_hardware.py)                   *)
(***************************************************************************)
\* level computed from a raw reading and the polarity (_update_level 114-118)
LevelOf(gpio_state) ==
    IF active_high THEN (IF gpio_state THEN "LOW" ELSE "OK")
                   ELSE (IF gpio_state THEN "OK" ELSE "LOW")

\* State after WaterLevelSensor.__init__: current_level starts OK and the
\* constructor's own _update_level() call (no debounce) has read the pin once.
SensorInit ==
    /\ raw \in BOOLEAN
    /\ stime = 0
    /\ mon_pc = "start"
    /\ stable_gpio_state = FALSE
    /\ stable_since = 0
    /\ current_level = LevelOf(raw)
    /\ callbacks = IF LevelOf(raw) # "OK" THEN <<LevelOf(raw)>> ELSE <<>>

\* the float switch moves or bounces
RawChange ==
    /\ raw' = ~raw
    /\ last_op' = <<"raw_change", "">>
    /\ UNCHANGED <<now, stime, mon_pc, stable_gpio_state, stable_since,
                   current_level, callbacks, relayVars, pumpVars, animVars,
                   ledVars, otherVars>>

\* _monitor_loop, lines 164-165
MonitorStart ==
    /\ mon_pc = "start"
    /\ stable_gpio_state' = raw
    /\ stable_since' = stime
    /\ mon_pc' = "read"
    /\ last_op' = <<"monitor_start", "">>
    /\ UNCHANGED <<now, raw, stime, current_level, callbacks, relayVars,
                   pumpVars, animVars, ledVars, otherVars>>

\* _monitor_loop, lines 169-178: read the pin, compare, test the debounce time
MonitorPoll ==
    /\ mon_pc = "read"
    /\ IF raw # stable_gpio_state
       THEN /\ stable_gpio_state' = raw
            /\ stable_since' = stime
            /\ mon_pc' = "sleep"
       ELSE /\ UNCHANGED <<stable_gpio_state, stable_since, ledVars>>
            /\ mon_pc' = IF stime - stable_since >= debounce_time
                         THEN "update" ELSE "sleep"
    /\ last_op' = <<"monitor_poll", "">>
    /\ UNCHANGED <<now, raw, stime, current_level, callbacks, relayVars,
                   pumpVars, animVars, ledVars, otherVars>>

\* (mutation) the callback is invoked after every debounced reading
MonitorUpdate_CallbackAlways ==
    /\ mon_pc = "update"
    /\ LET new_level == LevelOf(raw)
       IN  IF new_level # current_level
           THEN /\ Len(callbacks) < MaxCallbacks
                /\ current_level' = new_level
                /\ callbacks' = Append(callbacks, new_level)
                /\ last_op' = <<"level_change", "">>
           ELSE /\ Len(callbacks) < MaxCallbacks
                /\ callbacks' = Append(callbacks, new_level)
                /\ UNCHANGED current_level
                /\ last_op' = <<"level_same", "">>
    /\ stable_since' = stime
    /\ mon_pc' = "sleep"
    /\ UNCHANGED <<now, raw, stime, stable_gpio_state, relayVars, pumpVars,
                   animVars, ledVars, otherVars>>

\* _update_level called from the loop (line 180) and the timer reset (181):
\* _update_level reads the pin again and derives the level from that reading.
MonitorUpdate ==
    /\ mon_pc = "update"
    /\ LET new_level == LevelOf(raw)
       IN  IF new_level # current_level
           THEN /\ Len(callbacks) < MaxCallbacks
                /\ current_level' = new_level
                /\ callbacks' = Append(callbacks, new_level)
                /\ last_op' = <<"level_change", "">>
           ELSE /\ UNCHANGED <<current_level, callbacks>>
                /\ last_op' = <<"level_same", "">>
    /\ stable_since' = stime
    /\ mon_pc' = "sleep"
    /\ UNCHANGED <<now, raw, stime, stable_gpio_state, relayVars, pumpVars,
                   animVars, ledVars, otherVars>>

\* time.sleep(0.1) at the end of an iteration
MonitorSleep ==
    /\ mon_pc = "sleep"
    /\ stime < MaxPolls
    /\ stime' = stime + 1
    /\ mon_pc' = "read"
    /\ last_op' = <<"monitor_sleep", "">>
    /\ UNCHANGED <<now, raw, stable_gpio_state, stable_since, current_level,
                   callbacks, relayVars, pumpVars, animVars, ledVars, otherVars>>

\* MockWaterLevelSensor.set_level (the sensor of MOCK_MODE and of the tests)
MockSetLevel ==
    /\ Len(callbacks) < MaxCallbacks
    /\ \E level \in {"OK", "LOW"} :
         /\ level # current_level
         /\ current_level' = level
         /\ callbacks' = Append(callbacks, level)
    /\ last_op' = <<"set_level", "">>
    /\ UNCHANGED <<now, raw, stime, mon_pc, stable_gpio_state, stable_since,
                   relayVars, pumpVars, animVars, ledVars, otherVars>>

\* --- the sensor lock around the callback (water_level.py 124-151,
\*     mock_hardware.py 665-685; get_level 192-195 / 651-654)
CallbackIdle ==
    /\ sensor_kind = "real"
    /\ sensor_lock = "free"
    /\ cb = "idle"
    /\ getter = "idle"

\* _update_level from _monitor_loop: `with self.lock:'; on a change the
\* level is stored and on_state_change is called, inside the with block
UpdateLevelEnter ==
    /\ sensor_kind = "real"
    /\ mon_pc = "update"
    /\ cb = "idle"
    /\ sensor_lock = "free"
    /\ LET new_level == LevelOf(raw)
       IN  IF new_level # current_level
           THEN /\ Len(callbacks) < MaxCallbacks
                /\ current_level' = new_level
                /\ callbacks' = Append(callbacks, new_level)
                /\ sensor_lock' = "update"
                /\ cb' = "called"
                /\ last_op' = <<"level_change", "">>
                /\ UNCHANGED <<stable_since, mon_pc>>
           ELSE /\ UNCHANGED <<current_level, callbacks, sensor_lock, cb>>
                /\ stable_since' = stime
                /\ mon_pc' = "sleep"
                /\ last_op' = <<"level_same", "">>
    /\ UNCHANGED <<now, raw, stime, stable_gpio_state, sensor_kind, getter,
                   relayVars, pumpVars, animVars, ledVars, ctorVars,
                   gradVars, stateVars, offVars, lkVars>>

\* MockWaterLevelSensor.set_level: the same, called by a test or a client
SetLevelEnter ==
    /\ sensor_kind = "mock"
    /\ cb = "idle"
    /\ sensor_lock = "free"
    /\ Len(callbacks) < MaxCallbacks
    /\ \E level \in {"OK", "LOW"} :
         /\ level # current_level
         /\ current_level' = level
         /\ callbacks' = Append(callbacks, level)
    /\ sensor_lock' = "update"
    /\ cb' = "called"
    /\ last_op' = <<"set_level", "">>
    /\ UNCHANGED <<now, raw, stime, mon_pc, stable_gpio_state, stable_since,
                   sensor_kind, getter, relayVars, pumpVars, animVars,
                   ledVars, ctorVars, gradVars, stateVars, offVars, lkVars>>

\* the callback calls get_level() (or get_info()) on the same sensor
CallbackGetLevel ==
    /\ cb = "called"
    /\ cb' = "get_level"
    /\ last_op' = <<"callback", "get_level">>
    /\ UNCHANGED <<now, sensorVars, sensor_kind, sensor_lock, getter,
                   relayVars, pumpVars, animVars, ledVars, ctorVars,
                   gradVars, stateVars, offVars, lkVars>>

\* another thread (automation loop, status endpoint) calls get_level()
ReaderGetLevel ==
    /\ getter = "idle"
    /\ getter' = "get_level"
    /\ last_op' = <<"reader", "get_level">>
    /\ UNCHANGED <<now, sensorVars, sensor_kind, sensor_lock, cb,
                   relayVars, pumpVars, animVars, ledVars, ctorVars,
                   gradVars, stateVars, offVars, lkVars>>

\* get_level: `with self.lock: return self.current_level'
GetLevelReturn(who) ==
    /\ sensor_lock = "free"
    /\ IF who = "callback"
       THEN cb = "get_level" /\ cb' = "called" /\ getter' = getter
       ELSE getter = "get_level" /\ getter' = "idle" /\ cb' = cb
    /\ last_op' = <<"get_level", who>>
    /\ UNCHANGED <<now, sensorVars, sensor_kind, sensor_lock,
                   relayVars, pumpVars, animVars, ledVars, ctorVars,
                   gradVars, stateVars, offVars, lkVars>>

\* the callback returns; the with block ends; _monitor_loop resets its
\* timer (line 181)
CallbackReturn ==
    /\ cb = "called"
    /\ cb' = "idle"
    /\ sensor_lock' = "free"
    /\ IF sensor_kind = "real"
       THEN stable_since' = stime /\ mon_pc' = "sleep"
       ELSE UNCHANGED <<stable_since, mon_pc>>
    /\ last_op' = <<"callback", "return">>
    /\ UNCHANGED <<now, raw, stime, stable_gpio_state, current_level,
                   callbacks, sensor_kind, getter, relayVars, pumpVars,
                   animVars, ledVars, ctorVars, gradVars, stateVars,
                   offVars, lkVars>>

(***************************************************************************)
(* Pump automation (pump_automation.py)                                    *)
(***************************************************************************)
PumpInit ==
    /\ mode = "AUTO"
    /\ running_since = None
    /\ total_runtime = 0
    /\ cycle_count = 0
    /\ last_action_time = 0
    /\ auto_lock = "free"

\* the relay ids the relay manager holds (the model has the pump relay only)
get_relay_ids == {"pump"}

\* the pump_relay_id values a configuration may name
PumpRelayIds == {"pump", "other"}

\* (mutation) the constructor does not verify the relay id
construct_result_NoVerify(id) == "ok"

\* PumpAutomation.__init__: raises ValueError for an id the manager lacks
construct_result(id) ==
    IF id \notin get_relay_ids THEN "ValueError" ELSE "ok"

\* PumpAutomation(...): assigns the fields (PumpInit), verifies the relay id;
\* starts no thread and calls no relay operation
Construct ==
    /\ automation = "new"
    /\ \E id \in PumpRelayIds :
         /\ automation' = construct_result(id)
         /\ last_op' = <<"construct", id>>
    /\ UNCHANGED <<now, automation_thread, relayVars, sensorVars, pumpVars,
                   animVars, ledVars, gradVars, offVars, cbVars, lkVars, stateVars>>

\* start(): on a constructed automation without a live thread, starts the
\* automation thread; with a live thread it only logs a warning
AutomationStart ==
    /\ automation = "ok"
    /\ automation_thread' = "alive"
    /\ last_op' = <<"start", automation_thread>>
    /\ UNCHANGED <<now, automation, relayVars, sensorVars, pumpVars,
                   animVars, ledVars, gradVars, offVars, cbVars, lkVars, stateVars>>

\* the automation is constructed and its thread runs
AutomationStarted ==
    /\ automation = "ok"
    /\ automation_thread = "alive"

\* get_status: reads the automation, the relay state and the sensor level
GetStatus ==
    /\ automation = "ok"
    /\ auto_lock = "free"
    /\ last_op' = <<"get_status", "">>
    /\ UNCHANGED <<now, relayVars, sensorVars, pumpVars, animVars, ledVars, otherVars>>

\* (mutation) DISABLED leaves the relay as it is
set_mode_relay_Keep(m, r) == r

\* set_mode(m): only DISABLED touches the relay (lines 131-138)
set_mode_relay(m, r) == IF m = "DISABLED" THEN turn_off(r) ELSE r

\* (mutation) set_mode leaves running_since as it is
set_mode_running_since_Keep(m, rs) == rs

\* set_mode: self.running_since = None after the turn_off (line 135)
set_mode_running_since(m, rs) == IF m = "DISABLED" THEN None ELSE rs

SetMode ==
    /\ automation = "ok"
    /\ auto_lock = "free"
    /\ \E m \in {"AUTO", "MANUAL", "DISABLED"} :
         /\ mode' = m
         /\ relay' = set_mode_relay(m, relay)
         /\ running_since' = set_mode_running_since(m, running_since)
         /\ last_op' = <<"set_mode", m>>
    /\ on_since' = OnSince(relay')
    /\ UNCHANGED <<now, max_on_time, watchdog_running, timer_cb,
                   total_runtime, cycle_count, last_action_time, auto_lock,
                   sensorVars, animVars, ledVars, otherVars>>

\* reset_statistics
\* (mutation) reset_statistics also forgets the current dwell
ResetStatistics_ClearsDwell ==
    /\ automation = "ok"
    /\ auto_lock = "free"
    /\ total_runtime' = 0
    /\ running_since' = None
    /\ cycle_count' = 0
    /\ last_op' = <<"reset_statistics", "">>
    /\ UNCHANGED <<now, relayVars, mode, last_action_time,
                   auto_lock, sensorVars, animVars, ledVars, otherVars>>

ResetStatistics ==
    /\ automation = "ok"
    /\ auto_lock = "free"
    /\ total_runtime' = 0
    /\ cycle_count' = 0
    /\ last_op' = <<"reset_statistics", "">>
    /\ UNCHANGED <<now, relayVars, mode, running_since, last_action_time,
                   auto_lock, sensorVars, animVars, ledVars, otherVars>>

\* (mutation) the max_runtime check is missing
LowWaterBranch_NoSafety ==
    LET time_since_action == now - last_action_time
    IN  IF relay.state = "OFF"
        THEN (IF time_since_action >= off_interval THEN "on" ELSE "wait")
        ELSE (IF time_since_action >= on_interval THEN "off" ELSE "wait")

\* (mutation) the pump is switched on only after more than off_interval
LowWaterBranch_StrictOff ==
    LET time_since_action == now - last_action_time
    IN  IF running_since # None /\ now - running_since >= max_runtime
        THEN "trip"
        ELSE IF relay.state = "OFF"
             THEN (IF time_since_action > off_interval THEN "on" ELSE "wait")
             ELSE (IF time_since_action >= on_interval THEN "off" ELSE "wait")

\* The branch of _handle_low_water that a tick takes (lines 194-237)
LowWaterBranch ==
    LET time_since_action == now - last_action_time
    IN  IF running_since # None /\ now - running_since >= max_runtime
        THEN "trip"
        ELSE IF relay.state = "OFF"
             THEN (IF time_since_action >= off_interval THEN "on" ELSE "wait")
             ELSE (IF time_since_action >= on_interval THEN "off" ELSE "wait")

\* (mutation) the DISABLED branch does not look at the pump relay
disabled_branch_Idle(r) == "disabled_idle"

\* the DISABLED branch of the loop: the pump is switched off if it is ON
disabled_branch(r) ==
    IF r.state = "ON" THEN "disabled_off" ELSE "disabled_idle"

\* (mutation) MANUAL is not tested: the loop controls the pump as in AUTO
TickBranch_NoManual ==
    IF mode = "DISABLED"
    THEN (IF relay.state = "ON" THEN "disabled_off" ELSE "disabled_idle")
    ELSE IF current_level = "LOW" THEN LowWaterBranch
    ELSE (IF relay.state = "ON" THEN "ok_off" ELSE "ok_idle")

\* The branch of the loop body that a tick takes (lines 150-176)
TickBranch ==
    IF mode = "DISABLED" THEN disabled_branch(relay)
    ELSE IF mode = "MANUAL" THEN "manual"
    ELSE IF current_level = "LOW" THEN LowWaterBranch
    ELSE (IF relay.state = "ON" THEN "ok_off" ELSE "ok_idle")

\* (mutation) water OK does not switch the pump off
tick_relay_KeepOnOk(b, r, t) ==
    CASE b \in {"disabled_off", "trip", "off"} -> turn_off(r)
      [] b = "on" -> turn_on(r, t)
      [] OTHER -> r

\* relay after a tick that takes branch b
tick_relay(b, r, t) ==
    CASE b \in {"disabled_off", "ok_off", "trip", "off"} -> turn_off(r)
      [] b = "on" -> turn_on(r, t)
      [] OTHER -> r

\* (mutation) the on-interval branch clears running_since as well
tick_running_since_ClearOnOff(b, rs, t) ==
    CASE b \in {"disabled_off", "ok_off", "trip", "off"} -> None
      [] b = "on" -> (IF rs = None THEN t ELSE rs)
      [] OTHER -> rs

\* running_since after a tick that takes branch b: cleared with the pump in
\* DISABLED (156), on water OK (176) and by the safety trip (207); set by
\* "on" if unset (225-226); the on-interval branch (230-237) leaves it alone
tick_running_since(b, rs, t) ==
    CASE b \in {"disabled_off", "ok_off", "trip"} -> None
      [] b = "on" -> (IF rs = None THEN t ELSE rs)
      [] OTHER -> rs

\* total_runtime after a tick that takes branch b (lines 235-237)
tick_total_runtime(b, rs, total, time_since_action) ==
    IF b = "off" /\ rs # None THEN total + time_since_action ELSE total

\* (mutation) the loop also disables the automation when it stops the pump
\* on water OK
tick_mode_OkDisables(b, m) ==
    IF b \in {"trip", "ok_off"} THEN "DISABLED" ELSE m

\* mode after a tick that takes branch b: only the safety trip assigns it
tick_mode(b, m) == IF b = "trip" THEN "DISABLED" ELSE m

\* One iteration of _automation_loop: take the lock, run the body.  In
\* DISABLED and MANUAL the loop sleeps inside `with self.lock' (157, 162).
LoopTick ==
    /\ automation_thread = "alive"
    /\ auto_lock = "free"
    /\ LET b == TickBranch
       IN  /\ relay' = tick_relay(b, relay, now)
           /\ mode' = tick_mode(b, mode)
           /\ running_since' = tick_running_since(b, running_since, now)
           /\ last_action_time' = IF b \in {"on", "off"} THEN now
                                  ELSE last_action_time
           /\ cycle_count' = IF b = "on" THEN cycle_count + 1 ELSE cycle_count
           /\ total_runtime' = tick_total_runtime(b, running_since,
                                   total_runtime, now - last_action_time)
           /\ auto_lock' = IF mode \in {"DISABLED", "MANUAL"} THEN "loop"
                           ELSE "free"
           /\ last_op' = <<"tick", b>>
    /\ on_since' = OnSince(relay')
    /\ UNCHANGED <<now, max_on_time, watchdog_running, timer_cb, sensorVars,
                   animVars, ledVars, otherVars>>

\* the sleep inside the lock ends; `continue' leaves the with block
LoopWake ==
    /\ automation_thread = "alive"
    /\ auto_lock = "loop"
    /\ auto_lock' = "free"
    /\ last_op' = <<"loop_wake", "">>
    /\ UNCHANGED <<now, relayVars, mode, running_since, total_runtime,
                   cycle_count, last_action_time, sensorVars, animVars,
                   ledVars, otherVars>>


(***************************************************************************)
(* Animations (main.py run_async, animations.py, gradient.py)              *)
(***************************************************************************)
Names == {"sunrise", "gradient_shift"}
Tasks == 1..MaxTasks
Callers == {1, 2}

\* cloudy_sunrise / cloudy_sunset iterate over range(steps + 1); the gradient
\* animations loop until cancelled or until the duration has elapsed.
IsSun(n) == n \in {"sunrise", "sunset"}

\* durations the callers pass: sunrise gets max(300, ...), a gradient
\* animation gets 0 (run until cancelled) or a positive duration
Durations(n) == IF IsSun(n) THEN {FiniteDur} ELSE {0, FiniteDur}

FrameCap == FiniteDur + 1

IdleCall == [pc |-> "idle", name |-> "", dur |-> 0, target |-> 0]

AnimInit ==
    /\ active_threads = [n \in Names |-> 0]
    /\ tpc = [t \in Tasks |-> "none"]
    /\ tname = [t \in Tasks |-> ""]
    /\ tdur = [t \in Tasks |-> 0]
    /\ cancel = [t \in Tasks |-> FALSE]
    /\ frames = [t \in Tasks |-> 0]
    /\ anim_lock = 0
    /\ strip = 0
    /\ call = [c \in Callers |-> IdleCall]

Unused == {t \in Tasks : tpc[t] = "none"}
InFlight == {c \in Callers : call[c].pc # "idle"}
InLock == {"check", "write"}
Alive(t) == tpc[t] \in {"ready", "check", "write", "finally"}

\* run_async, lines 611-615: cancel the registered thread and start joining
RunAsyncBegin(c) ==
    /\ call[c].pc = "idle"
    /\ Cardinality(Unused) > Cardinality(InFlight)
    /\ \E n \in Names : \E d \in Durations(n) :
         IF active_threads[n] # 0
         THEN /\ cancel' = [cancel EXCEPT ![active_threads[n]] = TRUE]
              /\ call' = [call EXCEPT ![c] = [pc |-> "join", name |-> n,
                              dur |-> d, target |-> active_threads[n]]]
         ELSE /\ cancel' = cancel
              /\ call' = [call EXCEPT ![c] = [pc |-> "register", name |-> n,
                              dur |-> d, target |-> 0]]
    /\ last_op' = <<"run_async", "begin">>
    /\ UNCHANGED <<now, active_threads, tpc, tname, tdur, frames, anim_lock,
                   strip, relayVars, sensorVars, pumpVars, ledVars, otherVars>>

\* thread.join(timeout=2.0) returns because the thread has ended
JoinDone(c) ==
    /\ call[c].pc = "join"
    /\ tpc[call[c].target] = "dead"
    /\ call' = [call EXCEPT ![c].pc = "register"]
    /\ last_op' = <<"run_async", "joined">>
    /\ UNCHANGED <<now, active_threads, tpc, tname, tdur, cancel, frames,
                   anim_lock, strip, relayVars, sensorVars, pumpVars,
                   ledVars, otherVars>>

\* thread.join(timeout=2.0) returns after 2 s with the thread still alive.
\* A thread inside its frame loop sees the event within one frame period
\* (1/FPS = 40 ms); the thread that cannot end in time is the one blocked on
\* anim_lock behind another animation.
JoinTimeout(c) ==
    /\ call[c].pc = "join"
    /\ tpc[call[c].target] = "ready"
    /\ anim_lock # 0
    /\ call' = [call EXCEPT ![c].pc = "register"]
    /\ last_op' = <<"run_async", "timeout">>
    /\ UNCHANGED <<now, active_threads, tpc, tname, tdur, cancel, frames,
                   anim_lock, strip, relayVars, sensorVars, pumpVars,
                   ledVars, otherVars>>

\* run_async, lines 617-631: fresh event, new thread, register, start
RunAsyncRegister(c) ==
    /\ call[c].pc = "register"
    /\ Unused # {}
    /\ LET t == CHOOSE u \in Unused : \A v \in Unused : u <= v
           n == call[c].name
       IN  /\ cancel' = [cancel EXCEPT ![t] = FALSE]
           /\ active_threads' = [active_threads EXCEPT ![n] = t]
           /\ tpc' = [tpc EXCEPT ![t] = "ready"]
           /\ tname' = [tname EXCEPT ![t] = n]
           /\ tdur' = [tdur EXCEPT ![t] = call[c].dur]
    /\ call' = [call EXCEPT ![c] = IdleCall]
    /\ last_op' = <<"run_async", "start">>
    /\ UNCHANGED <<now, frames, anim_lock, strip, relayVars, sensorVars,
                   pumpVars, ledVars>>

\* run_async returns to a caller that leaves led_state alone
RunAsyncStart(c) == RunAsyncRegister(c) /\ UNCHANGED otherVars

\* (mutation) the with statement is entered although the lock is held
AnimAcquire_NoWait(t) ==
    /\ tpc[t] = "ready"
    /\ anim_lock' = t
    /\ tpc' = [tpc EXCEPT ![t] = "check"]
    /\ last_op' = <<"anim", "acquire">>
    /\ UNCHANGED <<now, active_threads, tname, tdur, cancel, frames, strip,
                   call, relayVars, sensorVars, pumpVars, ledVars, otherVars>>

\* `with leds.anim_lock:' is entered
AnimAcquire(t) ==
    /\ tpc[t] = "ready"
    /\ anim_lock = 0
    /\ anim_lock' = t
    /\ tpc' = [tpc EXCEPT ![t] = "check"]
    /\ last_op' = <<"anim", "acquire">>
    /\ UNCHANGED <<now, active_threads, tname, tdur, cancel, frames, strip,
                   call, relayVars, sensorVars, pumpVars, ledVars, otherVars>>

\* (mutation) the cancel event is not looked at
FrameDecision_NoCancel(t) ==
    IF IsSun(tname[t])
    THEN IF frames[t] >= tdur[t] + 1 THEN "completed"
         ELSE IF tdur[t] = 0 THEN "fault"
         ELSE "write"
    ELSE IF tdur[t] > 0 /\ frames[t] >= tdur[t] THEN "completed"
         ELSE "write"

\* What the top of one loop iteration decides, before the frame is written.
\*   sun:  loop exhausted after steps + 1 frames, else the cancel check,
\*         else smoothstep(i / steps), which divides by zero if steps = 0
\*   grad: the cancel check, then the duration check
FrameDecision(t) ==
    IF IsSun(tname[t])
    THEN IF frames[t] >= tdur[t] + 1 THEN "completed"
         ELSE IF cancel[t] THEN "cancelled"
         ELSE IF tdur[t] = 0 THEN "fault"
         ELSE "write"
    ELSE IF cancel[t] THEN "cancelled"
         ELSE IF tdur[t] > 0 /\ frames[t] >= tdur[t] THEN "completed"
         ELSE "write"

\* (mutation) returning from the frame loop does not release anim_lock
AnimCheck_KeepLock(t) ==
    /\ tpc[t] = "check"
    /\ LET d == FrameDecision(t)
       IN  /\ tpc' = [tpc EXCEPT ![t] = IF d = "write" THEN "write"
                                        ELSE "finally"]
           /\ frames' = IF d = "write" THEN frames
                         ELSE [frames EXCEPT ![t] = 0]
           /\ tdur' = IF d = "write" THEN tdur ELSE [tdur EXCEPT ![t] = 0]
           /\ last_op' = <<"anim", d>>
    /\ UNCHANGED <<now, active_threads, tname, cancel, strip, anim_lock, call,
                   relayVars, sensorVars, pumpVars, ledVars, otherVars>>

\* the per-frame checks; leaving the function releases anim_lock (the
\* frame counter and the duration are locals that end with the function)
AnimCheck(t) ==
    /\ tpc[t] = "check"
    /\ LET d == FrameDecision(t)
       IN  /\ tpc' = [tpc EXCEPT ![t] = IF d = "write" THEN "write"
                                        ELSE "finally"]
           /\ anim_lock' = IF d = "write" THEN anim_lock ELSE 0
           /\ frames' = IF d = "write" THEN frames
                         ELSE [frames EXCEPT ![t] = 0]
           /\ tdur' = IF d = "write" THEN tdur ELSE [tdur EXCEPT ![t] = 0]
           /\ last_op' = <<"anim", d>>
    /\ UNCHANGED <<now, active_threads, tname, cancel, strip, call, relayVars,
                   sensorVars, pumpVars, ledVars, otherVars>>

\* the frame is pushed to the strip (set_hsv / set_pixel_array), then sleep
AnimWrite(t) ==
    /\ tpc[t] = "write"
    /\ frames' = [frames EXCEPT ![t] = Min(frames[t] + 1, FrameCap)]
    /\ strip' = t
    /\ tpc' = [tpc EXCEPT ![t] = "check"]
    /\ last_op' = <<"anim", "frame">>
    /\ UNCHANGED <<now, active_threads, tname, tdur, cancel, anim_lock, call,
                   relayVars, sensorVars, pumpVars, ledVars, otherVars>>

\* the pixel write raises: the exception leaves the with block
AnimWriteFault(t) ==
    /\ tpc[t] = "write"
    /\ anim_lock' = 0
    /\ tpc' = [tpc EXCEPT ![t] = "finally"]
    /\ frames' = [frames EXCEPT ![t] = 0]
    /\ tdur' = [tdur EXCEPT ![t] = 0]
    /\ last_op' = <<"anim", "write_fault">>
    /\ UNCHANGED <<now, active_threads, tname, cancel, strip, call, relayVars,
                   sensorVars, pumpVars, ledVars, otherVars>>

\* cancel_event.set() by the owner of the event
SetEvent(t) ==
    /\ Alive(t) /\ ~cancel[t]
    /\ cancel' = [cancel EXCEPT ![t] = TRUE]
    /\ last_op' = <<"anim", "set_event">>
    /\ UNCHANGED <<now, active_threads, tpc, tname, tdur, frames, anim_lock,
                   strip, call, relayVars, sensorVars, pumpVars, ledVars, otherVars>>

\* (mutation) the wrapper has no finally clause
AnimExit_NoPop(t) ==
    /\ tpc[t] = "finally"
    /\ tpc' = [tpc EXCEPT ![t] = "dead"]
    /\ last_op' = <<"anim", "exit">>
    /\ UNCHANGED <<now, active_threads, tname, tdur, cancel, frames,
                   anim_lock, strip, call, relayVars, sensorVars, pumpVars,
                   ledVars, otherVars>>

\* wrapper's finally: active_threads.pop(name, None), then the thread ends
AnimExit(t) ==
    /\ tpc[t] = "finally"
    /\ active_threads' = [active_threads EXCEPT ![tname[t]] = 0]
    /\ tpc' = [tpc EXCEPT ![t] = "dead"]
    /\ last_op' = <<"anim", "exit">>
    /\ UNCHANGED <<now, tname, tdur, cancel, frames, anim_lock, strip, call,
                   relayVars, sensorVars, pumpVars, ledVars, otherVars>>

(***************************************************************************)
(* Gradient rendering (gradient.py)                                        *)
(* Positions, offsets and pixel positions are exact rationals: a position  *)
(* p stands for p / PosScale, and pixel i of n sits at i / (n - 1).        *)
(***************************************************************************)
\* the colours the stops are drawn from
Palette == {<<255, 0, 0>>, <<0, 0, 255>>, <<100, 200, 50>>}

Stop(p, c) == [position |-> p, r |-> c[1], g |-> c[2], b |-> c[3]]

StopInputs == {Stop(p, c) : p \in 0..PosScale, c \in Palette}

StopLists == UNION {[1..n -> StopInputs] : n \in 1..MaxStops}

\* (mutation) the stops are used in the order given
sorted_AsGiven(ss) == ss

\* sorted(stops, key=position): a stable sort, stops of equal position keep
\* their input order
RECURSIVE sorted(_)
sorted(ss) ==
    IF Len(ss) <= 1 THEN ss
    ELSE LET init == sorted(SubSeq(ss, 1, Len(ss) - 1))
             x == ss[Len(ss)]
             k == Cardinality({j \in 1..Len(init) :
                                 init[j].position <= x.position})
         IN  SubSeq(init, 1, k) \o <<x>> \o SubSeq(init, k + 1, Len(init))

\* int(): truncation towards zero of a / d, d > 0
IntTrunc(a, d) == IF a >= 0 THEN a \div d ELSE 0 - ((0 - a) \div d)

Clamp(x) == Max(0, Min(255, x))

\* the position t of pixel i (from 0) of n, as a multiple of
\* 1 / (PosScale * PixelDen(n)); wrapped into [0, 1) only if offset # 0
PixelDen(n) == IF n = 1 THEN 1 ELSE n - 1

PixelT(i, n, off) ==
    IF n = 1 THEN 0
    ELSE LET t == i * PosScale + off * (n - 1)
         IN  IF off # 0 THEN t % (PosScale * (n - 1)) ELSE t

\* the pair of stops around t: the first adjacent pair of the sorted stops
\* that encloses t, else the first and the last stop
Surrounding(st, t, k) ==
    LET J == {j \in 1..(Len(st) - 1) :
                st[j].position * k <= t /\ t <= st[j + 1].position * k}
    IN  IF J = {} THEN <<st[1], st[Len(st)]>>
        ELSE LET j == CHOOSE m \in J : \A o \in J : m <= o
             IN  <<st[j], st[j + 1]>>

\* linear interpolation of one channel, truncated and clamped
Channel(l, r, num, den) ==
    IF den = 0 THEN Clamp(l)
    ELSE Clamp(IntTrunc(l * den + (r - l) * num, den))

PixelColor(st, i, n, off) ==
    LET k == PixelDen(n)
        t == PixelT(i, n, off)
        lr == Surrounding(st, t, k)
        left_stop == lr[1]
        right_stop == lr[2]
        num == t - left_stop.position * k
        den == (right_stop.position - left_stop.position) * k
    IN  <<Channel(left_stop.r, right_stop.r, num, den),
          Channel(left_stop.g, right_stop.g, num, den),
          Channel(left_stop.b, right_stop.b, num, den)>>

render_gradient(ss, n, off) ==
    IF Len(ss) < 2 THEN <<"ValueError">>
    ELSE IF n <= 0 THEN <<>>
    ELSE LET sorted_stops == sorted(ss)
         IN  [i \in 1..n |-> PixelColor(sorted_stops, i - 1, n, off)]

\* no render_gradient call is being looked at
GradientIdle ==
    /\ stops = <<>> /\ pixel_count = 0 /\ offset = 0 /\ colors = <<>>

\* one call render_gradient(stops, pixel_count, offset)
Render ==
    /\ last_op = <<"init", "">>
    /\ stops # <<>>
    /\ colors' = render_gradient(stops, pixel_count, offset)
    /\ last_op' = <<"render_gradient", "">>
    /\ UNCHANGED <<now, stops, pixel_count, offset, ctorVars, offVars, cbVars, lkVars, relayVars,
                   sensorVars, pumpVars, animVars, ledVars, stateVars>>

(***************************************************************************)
(* LEDState (state.py): update, get_snapshot, to_mqtt_payload              *)
(* brightness is a percentage; None of active_animation is "None";         *)
(* gradient_config and the temperature fields are left out.                *)
(***************************************************************************)
StateFields ==
    {"mode", "rgb", "brightness", "active_animation", "last_updated"}

StateMethods == {"update", "to_mqtt_payload", "get_snapshot"}

\* hasattr(self, key)
hasattr(key) == key \in StateFields \cup StateMethods \cup {"_lock"}

\* key.startswith('_'), over the keys of KwargsOf
startswith_underscore(key) == key \in {"_lock"}

\* (mutation) update sets every key it is given
Settable_Any(key) == TRUE

\* the test update() applies to each key
Settable(key) == hasattr(key) /\ ~startswith_underscore(key)

\* setattr(self, key, value)
setattr(st, key, value) == (key :> value) @@ st

\* the threads that call update, and the thread that reads
Updaters == {"u1", "u2"}
StateReader == "reader"

\* the keyword arguments of the update calls, in the order given
KwargsIds == {"rgb", "off", "sunrise"}

KwargsOf(kw) ==
    CASE kw = "rgb" ->
           <<<<"mode", "rgb">>, <<"rgb", <<255, 0, 0>>>>, <<"brightness", 80>>>>
      [] kw = "off" ->
           <<<<"mode", "off">>, <<"rgb", <<0, 0, 0>>>>, <<"brightness", 0>>>>
      [] kw = "sunrise" ->
           <<<<"mode", "sunrise">>, <<"_lock", "invalid">>,
             <<"invalid_field", "value">>, <<"active_animation", "sunrise">>>>

\* led_state = LEDState()
StateIdle ==
    /\ led_state = [mode |-> "off", rgb |-> <<0, 0, 0>>, brightness |-> 100,
                    active_animation |-> "None", last_updated |-> 0]
    /\ committed = led_state
    /\ led_state_lock = "free"
    /\ upd = [u \in Updaters |-> [pc |-> "idle", kw |-> "", i |-> 0]]
    /\ rd = [pc |-> "idle", op |-> "", vals |-> <<>>, out |-> [state |-> ""]]

\* update(**kwargs): `with self._lock'
UpdateBegin(u) ==
    /\ upd[u].pc = "idle"
    /\ led_state_lock = "free"
    /\ led_state_lock' = u
    /\ \E kw \in KwargsIds :
         /\ upd' = [upd EXCEPT ![u] = [pc |-> "loop", kw |-> kw, i |-> 0]]
         /\ last_op' = <<"update_begin", kw>>
    /\ UNCHANGED <<now, led_state, committed, rd, ctorVars, offVars, cbVars, lkVars, gradVars,
                   relayVars, sensorVars, pumpVars, animVars, ledVars>>

\* one iteration of `for key, value in kwargs.items()'
UpdateItem(u) ==
    /\ upd[u].pc = "loop"
    /\ upd[u].i < Len(KwargsOf(upd[u].kw))
    /\ LET item == KwargsOf(upd[u].kw)[upd[u].i + 1]
       IN  led_state' = IF Settable(item[1])
                        THEN setattr(led_state, item[1], item[2])
                        ELSE led_state
    /\ upd' = [upd EXCEPT ![u].i = @ + 1]
    /\ last_op' = <<"update_item", upd[u].kw>>
    /\ UNCHANGED <<now, led_state_lock, committed, rd, ctorVars, offVars, cbVars, lkVars, gradVars,
                   relayVars, sensorVars, pumpVars, animVars, ledVars>>

\* self.last_updated = datetime.now(), the lock is released, update returns
UpdateReturn(u) ==
    /\ upd[u].pc = "loop"
    /\ upd[u].i = Len(KwargsOf(upd[u].kw))
    /\ led_state' = setattr(led_state, "last_updated", now)
    /\ committed' = led_state'
    /\ led_state_lock' = IF led_state_lock = u THEN "free" ELSE led_state_lock
    /\ upd' = [upd EXCEPT ![u] = [pc |-> "idle", kw |-> "", i |-> 0]]
    /\ last_op' = <<"update", upd[u].kw>>
    /\ UNCHANGED <<now, rd, ctorVars, offVars, cbVars, lkVars, gradVars,
                   relayVars, sensorVars, pumpVars, animVars, ledVars>>

\* the attributes the two readers read, in the order they read them
ReadOrder(op) ==
    IF op = "get_snapshot"
    THEN <<"mode", "rgb", "brightness", "active_animation", "last_updated">>
    ELSE <<"mode", "brightness", "rgb", "active_animation">>

\* to_mqtt_payload returns after reading mode == "off"
ReadComplete(r) ==
    \/ Len(r.vals) = Len(ReadOrder(r.op))
    \/ r.op = "to_mqtt_payload" /\ Len(r.vals) = 1 /\ r.vals[1] = "off"

\* the dictionary built from the values read
ReadResult(op, vals) ==
    IF op = "get_snapshot"
    THEN [mode |-> vals[1], rgb |-> vals[2], brightness |-> vals[3],
          active_animation |-> vals[4], last_updated |-> vals[5]]
    ELSE IF vals[1] = "off" THEN [state |-> "OFF"]
    ELSE [state |-> "ON", brightness |-> (vals[2] * 255) \div 100,
          color |-> vals[3],
          effect |-> IF vals[4] = "None" THEN "none" ELSE vals[4]]

\* (mutation) the reader does not take the lock
ReadBegin_NoLock ==
    /\ rd.pc # "reading"
    /\ \E op \in {"get_snapshot", "to_mqtt_payload"} :
         /\ rd' = [pc |-> "reading", op |-> op, vals |-> <<>>,
                   out |-> [state |-> ""]]
         /\ last_op' = <<"read_begin", op>>
    /\ UNCHANGED <<now, led_state, led_state_lock, committed, upd, ctorVars, offVars, cbVars, lkVars,
                   gradVars, relayVars, sensorVars, pumpVars, animVars,
                   ledVars>>

\* get_snapshot() / to_mqtt_payload(): `with self._lock'
ReadBegin ==
    /\ rd.pc # "reading"
    /\ led_state_lock = "free"
    /\ led_state_lock' = StateReader
    /\ \E op \in {"get_snapshot", "to_mqtt_payload"} :
         /\ rd' = [pc |-> "reading", op |-> op, vals |-> <<>>,
                   out |-> [state |-> ""]]
         /\ last_op' = <<"read_begin", op>>
    /\ UNCHANGED <<now, led_state, committed, upd, ctorVars, offVars, cbVars, lkVars, gradVars,
                   relayVars, sensorVars, pumpVars, animVars, ledVars>>

\* the reader reads its next attribute
ReadField ==
    /\ rd.pc = "reading"
    /\ ~ReadComplete(rd)
    /\ rd' = [rd EXCEPT
                !.vals = Append(@, led_state[ReadOrder(rd.op)[Len(@) + 1]])]
    /\ last_op' = <<"read_field", rd.op>>
    /\ UNCHANGED <<now, led_state, led_state_lock, committed, upd, ctorVars, offVars, cbVars, lkVars,
                   gradVars, relayVars, sensorVars, pumpVars, animVars,
                   ledVars>>

\* the reader returns its dictionary and the lock is released
ReadReturn ==
    /\ rd.pc = "reading"
    /\ ReadComplete(rd)
    /\ rd' = [rd EXCEPT !.pc = "done", !.vals = <<>>,
                        !.out = ReadResult(rd.op, rd.vals)]
    /\ led_state_lock' = IF led_state_lock = StateReader THEN "free"
                         ELSE led_state_lock
    /\ last_op' = <<"read_return", rd.op>>
    /\ UNCHANGED <<now, led_state, committed, upd, ctorVars, offVars, cbVars, lkVars, gradVars,
                   relayVars, sensorVars, pumpVars, animVars, ledVars>>

(***************************************************************************)
(* The OFF command (main.py): /backlight/off and the MQTT path _off_sync   *)
(***************************************************************************)
\* the mode an animation handler stores with the name of its animation
ModeOf(n) == IF IsSun(n) THEN n ELSE "gradient_animated"

\* an animation handler: run_async(name, ...) returns, then
\* led_state.update(mode=..., active_animation=name)
StartAnimation(c) ==
    /\ RunAsyncRegister(c)
    /\ led_state' = setattr(setattr(setattr(led_state,
                         "mode", ModeOf(call[c].name)),
                         "active_animation", call[c].name),
                         "last_updated", now)
    /\ committed' = led_state'
    /\ UNCHANGED <<ctorVars, gradVars, led_state_lock, upd, rd, offVars, cbVars, lkVars>>

OffPaths == {"http", "mqtt"}

OffIdle ==
    /\ off_cmd = [pc |-> "idle", path |-> "", join |-> {}, before |-> {}]
    /\ dark = {}

\* the threads of list(active_threads.items())
Registered == {active_threads[n] : n \in Names} \ {0}

\* the led_state.update call that follows the blanking: the HTTP handler
\* passes active_animation=None, the MQTT command handler does not
off_update(p, st) ==
    LET base == setattr(setattr(setattr(st, "mode", "off"),
                                "rgb", <<0, 0, 0>>), "brightness", 0)
    IN  IF p = "http" THEN setattr(base, "active_animation", "None")
        ELSE base

\* first loop: cancel_event.set() for every registered handle
OffBegin(p) ==
    /\ off_cmd.pc = "idle"
    /\ InFlight = {}
    /\ cancel' = [t \in Tasks |-> cancel[t] \/ t \in Registered]
    /\ off_cmd' = [pc |-> "join", path |-> p, join |-> Registered,
               before |-> {t \in Tasks : Alive(t)}]
    /\ last_op' = <<"off", "cancel">>
    /\ UNCHANGED <<now, active_threads, tpc, tname, tdur, frames, anim_lock,
                   strip, call, dark, relayVars, sensorVars, pumpVars,
                   ledVars, ctorVars, gradVars, stateVars, cbVars, lkVars>>

\* second loop: thread.join(timeout=2.0) returns, the thread has ended
OffJoinDone ==
    /\ off_cmd.pc = "join"
    /\ \E t \in off_cmd.join :
         /\ tpc[t] = "dead"
         /\ off_cmd' = [off_cmd EXCEPT !.join = @ \ {t}]
    /\ last_op' = <<"off", "joined">>
    /\ UNCHANGED <<now, animVars, dark, relayVars, sensorVars, pumpVars,
                   ledVars, ctorVars, gradVars, stateVars, cbVars, lkVars>>

\* thread.join(timeout=2.0) returns with the thread alive ("did not stop
\* in time"): the thread is blocked on anim_lock and the holder of the lock
\* has not been told to stop
OffJoinTimeout ==
    /\ off_cmd.pc = "join"
    /\ anim_lock # 0
    /\ ~cancel[anim_lock]
    /\ \E t \in off_cmd.join :
         /\ tpc[t] = "ready"
         /\ off_cmd' = [off_cmd EXCEPT !.join = @ \ {t}]
    /\ last_op' = <<"off", "timeout">>
    /\ UNCHANGED <<now, animVars, dark, relayVars, sensorVars, pumpVars,
                   ledVars, ctorVars, gradVars, stateVars, cbVars, lkVars>>

\* leds.off() blanks the strip, then led_state.update(...)
OffBlank ==
    /\ off_cmd.pc = "join"
    /\ off_cmd.join = {}
    /\ strip' = 0
    /\ led_state' = setattr(off_update(off_cmd.path, led_state),
                            "last_updated", now)
    /\ committed' = led_state'
    /\ dark' = dark \cup off_cmd.before
    /\ off_cmd' = [pc |-> "idle", path |-> "", join |-> {}, before |-> {}]
    /\ last_op' = <<"off", off_cmd.path>>
    /\ UNCHANGED <<now, active_threads, tpc, tname, tdur, cancel, frames,
                   anim_lock, call, relayVars, sensorVars, pumpVars, ledVars,
                   ctorVars, gradVars, led_state_lock, upd, rd, cbVars, lkVars>>

(***************************************************************************)
(* Lock acquisitions of the operations                                     *)
(***************************************************************************)
\* The component locks an operation acquires, each as a pair
\* <<lock already held by the thread ("none" if it holds none), lock taken>>.
\* op is the label of the step, <<operation, argument>>.

\* (mutation) the sensor's on_state_change callback takes the automation lock
Acquires_CallbackLocksPump(op) ==
    IF op[1] = "set_level"
    THEN {<<"none", "sensor">>, <<"sensor", "pump">>}
    ELSE {}

\* _automation_loop holds PumpAutomation.lock for the whole iteration and,
\* inside it, calls water_sensor.get_level (sensor lock) and
\* relay_manager.turn_on / turn_off (relay lock); get_state takes no lock.
Acquires(op) ==
    CASE op[1] = "tick" ->
           {<<"none", "pump">>}
           \cup (IF op[2] \in {"disabled_off", "disabled_idle", "manual"}
                 THEN {} ELSE {<<"pump", "sensor">>})
           \cup (IF op[2] \in {"disabled_off", "ok_off", "trip", "on", "off"}
                 THEN {<<"pump", "relay">>} ELSE {})
      [] op[1] = "set_mode" ->
           {<<"none", "pump">>}
           \cup (IF op[2] = "DISABLED" THEN {<<"pump", "relay">>} ELSE {})
      [] op[1] = "get_status" -> {<<"none", "pump">>, <<"pump", "sensor">>}
      [] op[1] = "reset_statistics" -> {<<"none", "pump">>}
      [] op[1] \in {"relay", "auto_shutoff", "watchdog"} ->
           {<<"none", "relay">>}
      [] op[1] \in {"set_level", "level_change", "level_same"} ->
           {<<"none", "sensor">>}
      [] op[1] \in {"shot_begin"} -> {<<"none", "led">>}
      [] op = <<"anim", "frame">> -> {<<"none", "led">>}
      [] OTHER -> {}

(***************************************************************************)
(* Threads and locks: each operation as the sequence of lock acquisitions  *)
(* and releases its code makes                                             *)
(***************************************************************************)
LockThreads ==
    {"loop", "caller", "relay_cmd", "watchdog", "timer", "monitor", "anim",
     "shot"}

Locks == {"pump", "relay", "sensor", "anim", "led"}

LocksIdle ==
    /\ mock_mode = FALSE
    /\ lk_op = [t \in LockThreads |-> "idle"]
    /\ lk_pc = [t \in LockThreads |-> 0]
    /\ lock_owner = [l \in Locks |-> "none"]

\* `with lock:' around a body that is itself a sequence of steps
Within(l, body) == <<<<"acq", l>>>> \o body \o <<<<"rel", l>>>>

\* (mutation) the water-level callback takes the pump-automation lock
LockProgram_CallbackLocksPump(op) ==
    CASE op = "tick_auto" ->
           Within("pump", Within("sensor", <<>>) \o Within("relay", <<>>))
      [] op \in {"tick_disabled", "set_mode"} ->
           Within("pump", Within("relay", <<>>))
      [] op \in {"tick_manual", "reset_statistics"} -> Within("pump", <<>>)
      [] op = "get_status" -> Within("pump", Within("sensor", <<>>))
      [] op \in {"relay_op", "sweep", "auto_shutoff"} ->
           Within("relay", <<>>)
      [] op = "mock_force" -> Within("relay", Within("relay", <<>>))
      [] op = "update_level" -> Within("sensor", Within("pump", <<>>))
      [] op = "animation" -> Within("anim", Within("led", <<>>))
      [] op = "shot" -> Within("led", <<>>)

\* the locks each operation takes, in the order of its code
\*   tick_auto      _automation_loop in AUTO: get_level, then turn_on/off
\*   tick_disabled  _automation_loop in DISABLED: turn_off
\*   tick_manual    _automation_loop in MANUAL
\*   set_mode       set_mode(DISABLED): turn_off
\*   get_status     get_state (no lock), get_level
\*   relay_op       Relay.turn_on / turn_off / toggle
\*   sweep          RelayManager._watchdog_loop, one relay: internal methods
\*   mock_force     MockRelayManager._watchdog_loop forcing OFF: turn_off()
\*   auto_shutoff   Relay._auto_shutoff: turn_off
\*   update_level   _update_level with water_level_changed_callback
\*   animation      an animation function writing a frame
\*   shot           a one-shot LedStrip call
LockProgram(op) ==
    CASE op = "tick_auto" ->
           Within("pump", Within("sensor", <<>>) \o Within("relay", <<>>))
      [] op \in {"tick_disabled", "set_mode"} ->
           Within("pump", Within("relay", <<>>))
      [] op \in {"tick_manual", "reset_statistics"} -> Within("pump", <<>>)
      [] op = "get_status" -> Within("pump", Within("sensor", <<>>))
      [] op \in {"relay_op", "sweep", "auto_shutoff"} ->
           Within("relay", <<>>)
      [] op = "mock_force" -> Within("relay", Within("relay", <<>>))
      [] op = "update_level" -> Within("sensor", <<>>)
      [] op = "animation" -> Within("anim", Within("led", <<>>))
      [] op = "shot" -> Within("led", <<>>)

\* the MockRelayManager sweep takes its force-OFF branch
MockForceDue ==
    /\ mock_mode
    /\ max_on_time > 0 /\ relay.state = "ON"
    /\ get_time_remaining(relay, now) # None
    /\ get_time_remaining(relay, now) <= 0

\* what each thread does
ThreadOps(t) ==
    CASE t = "loop" -> {"tick_auto", "tick_disabled", "tick_manual"}
      [] t = "caller" -> {"set_mode", "get_status", "reset_statistics"}
      [] t = "relay_cmd" -> {"relay_op"}
      [] t = "watchdog" -> IF MockForceDue THEN {"mock_force"} ELSE {"sweep"}
      [] t = "timer" -> {"auto_shutoff"}
      [] t = "monitor" -> {"update_level"}
      [] t = "anim" -> {"animation"}
      [] t = "shot" -> {"shot"}

\* the step a thread is at
NextLockStep(t) == LockProgram(lk_op[t])[lk_pc[t]]

\* the lock a thread is about to acquire ("none": it is not acquiring)
Wants(t) ==
    IF lk_op[t] # "idle" /\ NextLockStep(t)[1] = "acq"
    THEN NextLockStep(t)[2] ELSE "none"

\* t waits for a lock that u holds
WaitsFor(t, u) == Wants(t) # "none" /\ lock_owner[Wants(t)] = u

\* a thread enters an operation
LockBegin(t) ==
    /\ lk_op[t] = "idle"
    /\ \E op \in ThreadOps(t) : lk_op' = [lk_op EXCEPT ![t] = op]
    /\ lk_pc' = [lk_pc EXCEPT ![t] = 1]
    /\ last_op' = <<"lock_begin", t>>
    /\ UNCHANGED <<now, mock_mode, lock_owner, relayVars, sensorVars,
                   pumpVars, animVars, ledVars, ctorVars, gradVars,
                   stateVars, offVars, cbVars>>

\* the position after a step; the operation ends with its last step
AfterStep(t) ==
    /\ IF lk_pc[t] = Len(LockProgram(lk_op[t]))
       THEN /\ lk_op' = [lk_op EXCEPT ![t] = "idle"]
            /\ lk_pc' = [lk_pc EXCEPT ![t] = 0]
       ELSE /\ lk_op' = lk_op
            /\ lk_pc' = [lk_pc EXCEPT ![t] = @ + 1]
    /\ UNCHANGED <<now, mock_mode, relayVars, sensorVars, pumpVars,
                   animVars, ledVars, ctorVars, gradVars, stateVars,
                   offVars, cbVars>>

\* threading.Lock.acquire (entering `with lock:'): blocks until it is free
LockAcquire(t) ==
    /\ Wants(t) # "none"
    /\ lock_owner[Wants(t)] = "none"
    /\ lock_owner' = [lock_owner EXCEPT ![Wants(t)] = t]
    /\ last_op' = <<"lock_acquire", t>>
    /\ AfterStep(t)

\* leaving `with lock:'
LockRelease(t) ==
    /\ lk_op[t] # "idle"
    /\ NextLockStep(t)[1] = "rel"
    /\ lock_owner' = [lock_owner EXCEPT ![NextLockStep(t)[2]] = "none"]
    /\ last_op' = <<"lock_release", t>>
    /\ AfterStep(t)

(***************************************************************************)
(* LED strip (led.py): one-shot calls and the hardware-access lock         *)
(***************************************************************************)
Writers == {1, 2}

\* the LedStrip methods that touch the hardware from outside an animation
ShotOps == {"set_rgb", "set_hsv", "set_brightness", "set_pixel_array",
            "set_pixel", "off"}

LedInit ==
    /\ hw_lock = 0
    /\ writing = {}
    /\ shot = [w \in Writers |-> "idle"]

\* a thread calls one of the one-shot methods
ShotCall(w) ==
    /\ shot[w] = "idle"
    /\ \E op \in ShotOps :
         /\ shot' = [shot EXCEPT ![w] = op]
         /\ last_op' = <<"shot_call", op>>
    /\ UNCHANGED <<now, hw_lock, writing, relayVars, sensorVars, pumpVars,
                   animVars, otherVars>>

\* (mutation) the method waits for the animation lock as well
ShotBegin_TakesAnimLock(w) ==
    /\ shot[w] \in ShotOps
    /\ (0 - w) \notin writing
    /\ hw_lock = 0 /\ anim_lock = 0
    /\ hw_lock' = 0 - w
    /\ writing' = writing \cup {0 - w}
    /\ last_op' = <<"shot_begin", shot[w]>>
    /\ UNCHANGED <<now, shot, relayVars, sensorVars, pumpVars, animVars, otherVars>>

\* `with self.lock:' of the method is entered (anim_lock is not looked at)
ShotBegin(w) ==
    /\ shot[w] \in ShotOps
    /\ (0 - w) \notin writing
    /\ hw_lock = 0
    /\ hw_lock' = 0 - w
    /\ writing' = writing \cup {0 - w}
    /\ last_op' = <<"shot_begin", shot[w]>>
    /\ UNCHANGED <<now, shot, relayVars, sensorVars, pumpVars, animVars, otherVars>>

\* the pixels are written and shown (set_brightness only stores the level),
\* the with block is left and the method returns
ShotEnd(w) ==
    /\ shot[w] \in ShotOps
    /\ (0 - w) \in writing
    /\ strip' = IF shot[w] = "set_brightness" THEN strip ELSE 0
    /\ writing' = writing \ {0 - w}
    /\ hw_lock' = IF hw_lock = 0 - w THEN 0 ELSE hw_lock
    /\ shot' = [shot EXCEPT ![w] = "idle"]
    /\ last_op' = <<"shot_end", shot[w]>>
    /\ UNCHANGED <<now, active_threads, tpc, tname, tdur, cancel, frames,
                   anim_lock, call, relayVars, sensorVars, pumpVars, otherVars>>

\* an animation's frame write enters `with self.lock:' of set_rgb /
\* set_pixel_array
AnimWriteBegin(t) ==
    /\ tpc[t] = "write"
    /\ t \notin writing
    /\ hw_lock = 0
    /\ hw_lock' = t
    /\ writing' = writing \cup {t}
    /\ last_op' = <<"anim", "frame_begin">>
    /\ UNCHANGED <<now, shot, relayVars, sensorVars, pumpVars, animVars, otherVars>>

\* the frame is shown, the hardware lock released, then sleep(1 / FPS)
AnimWriteEnd(t) ==
    /\ tpc[t] = "write"
    /\ t \in writing
    /\ frames' = [frames EXCEPT ![t] = Min(frames[t] + 1, FrameCap)]
    /\ strip' = t
    /\ tpc' = [tpc EXCEPT ![t] = "check"]
    /\ writing' = writing \ {t}
    /\ hw_lock' = IF hw_lock = t THEN 0 ELSE hw_lock
    /\ last_op' = <<"anim", "frame">>
    /\ UNCHANGED <<now, active_threads, tname, tdur, cancel, anim_lock, call,
                   shot, relayVars, sensorVars, pumpVars, otherVars>>

(***************************************************************************)
(* Specifications                                                          *)
(***************************************************************************)
\* the mock sensor after construction: level OK, no monitor thread
MockSensorInit ==
    /\ raw = FALSE
    /\ stime = 0
    /\ mon_pc = "start"
    /\ stable_gpio_state = FALSE
    /\ stable_since = 0
    /\ current_level = "OK"
    /\ callbacks = <<>>

CommonInit ==
    /\ now = 0
    /\ last_op = <<"init", "">>

\* --- the relay alone, with and without a max_on_time
InitRelay ==
    /\ CommonInit /\ AutomationStarted /\ GradientIdle /\ StateIdle /\ OffIdle
    /\ CallbackIdle /\ LocksIdle
    /\ \E m \in {0, MaxOn} : RelayInit(m)
    /\ MockSensorInit /\ PumpInit /\ AnimInit /\ LedInit

NextRelay ==
    \/ RelayCommand
    \/ TimerExpire
    \/ AutoShutoff
    \/ WatchdogSweep
    \/ Cleanup
    \/ Advance

SpecRelay == InitRelay /\ [][NextRelay]_vars

\* --- the relay under its operations and the watchdog, with a pin that can
\* be altered from outside
NextRelayPin ==
    \/ RelayCommand
    \/ TimerExpire
    \/ AutoShutoff
    \/ WatchdogSweep
    \/ PinAltered
    \/ Advance

SpecRelayPin == InitRelay /\ [][NextRelayPin]_vars

\* --- the water level sensor alone
InitSensor ==
    /\ CommonInit /\ AutomationStarted /\ GradientIdle /\ StateIdle /\ OffIdle
    /\ CallbackIdle /\ LocksIdle
    /\ RelayInit(0) /\ SensorInit /\ PumpInit /\ AnimInit /\ LedInit

NextSensor ==
    \/ RawChange
    \/ MonitorStart
    \/ MonitorPoll
    \/ MonitorUpdate
    \/ MonitorSleep

SpecSensor == InitSensor /\ [][NextSensor]_vars

\* --- either sensor with a callback that may read the sensor, and a
\*     reader thread
InitSensorCb ==
    /\ CommonInit /\ AutomationStarted /\ GradientIdle /\ StateIdle /\ OffIdle
    /\ LocksIdle
    /\ sensor_kind \in {"real", "mock"}
    /\ sensor_lock = "free" /\ cb = "idle" /\ getter = "idle"
    /\ IF sensor_kind = "real" THEN SensorInit ELSE MockSensorInit
    /\ RelayInit(0) /\ PumpInit /\ AnimInit /\ LedInit

NextSensorCb ==
    \/ sensor_kind = "real" /\ RawChange
    \/ sensor_kind = "real" /\ MonitorStart
    \/ sensor_kind = "real" /\ MonitorPoll
    \/ sensor_kind = "real" /\ MonitorSleep
    \/ UpdateLevelEnter
    \/ SetLevelEnter
    \/ CallbackGetLevel
    \/ ReaderGetLevel
    \/ \E who \in {"callback", "reader"} : GetLevelReturn(who)
    \/ CallbackReturn

SpecSensorCb == InitSensorCb /\ [][NextSensorCb]_vars

\* --- pump automation with its relay (max_on_time = 0, the RelayConfig
\*     default) and the mock sensor
InitPump ==
    /\ CommonInit /\ AutomationStarted /\ GradientIdle /\ StateIdle /\ OffIdle
    /\ CallbackIdle /\ LocksIdle
    /\ RelayInit(0) /\ MockSensorInit /\ PumpInit /\ AnimInit /\ LedInit

NextPump ==
    \/ SetMode
    \/ ResetStatistics
    \/ GetStatus
    \/ LoopTick
    \/ LoopWake
    \/ MockSetLevel
    \/ RelayCommand
    \/ Advance

SpecPump == InitPump /\ [][NextPump]_vars

\* --- render_gradient as a function: one call on every list of 1..MaxStops
\* stops, every pixel count 0..MaxPixels and every offset 0, 1/PosScale, .. 1
InitGradient ==
    /\ CommonInit /\ AutomationStarted /\ StateIdle /\ OffIdle
    /\ CallbackIdle /\ LocksIdle
    /\ stops \in StopLists
    /\ pixel_count \in 0..MaxPixels
    /\ offset \in 0..PosScale
    /\ colors = <<>>
    /\ RelayInit(0) /\ MockSensorInit /\ PumpInit /\ AnimInit /\ LedInit

NextGradient == Render

SpecGradient == InitGradient /\ [][NextGradient]_vars

\* --- the LEDState instance with two threads that update it and one thread
\* that takes snapshots and MQTT payloads
InitState ==
    /\ CommonInit /\ AutomationStarted /\ GradientIdle /\ StateIdle /\ OffIdle
    /\ CallbackIdle /\ LocksIdle
    /\ RelayInit(0) /\ MockSensorInit /\ PumpInit /\ AnimInit /\ LedInit

NextState ==
    \/ \E u \in Updaters : UpdateBegin(u) \/ UpdateItem(u) \/ UpdateReturn(u)
    \/ ReadBegin
    \/ ReadField
    \/ ReadReturn
    \/ Advance

SpecState == InitState /\ [][NextState]_vars

\* --- the automation from its construction on (main.py: PumpAutomation(...)
\* then start()), with either a relay id the manager holds or one it lacks
InitCtor ==
    /\ CommonInit
    /\ automation = "new" /\ automation_thread = "none"
    /\ GradientIdle /\ StateIdle /\ OffIdle
    /\ CallbackIdle /\ LocksIdle
    /\ RelayInit(0) /\ MockSensorInit /\ PumpInit /\ AnimInit /\ LedInit

NextCtor ==
    \/ Construct
    \/ AutomationStart
    \/ NextPump

SpecCtor == InitCtor /\ [][NextCtor]_vars

\* the automation thread keeps iterating while automation_running is set
SpecPumpFair == SpecPump /\ WF_vars(LoopTick)

\* ... and each time.sleep(1.0) it makes inside the lock returns
SpecPumpLive == SpecPumpFair /\ WF_vars(LoopWake)

\* --- pump automation when nothing but the automation drives the pump relay
\*     (no relay command from HTTP / MQTT)
NextPumpAuto ==
    \/ SetMode
    \/ ResetStatistics
    \/ GetStatus
    \/ LoopTick
    \/ LoopWake
    \/ MockSetLevel
    \/ Advance

SpecPumpAuto == InitPump /\ [][NextPumpAuto]_vars

\* --- the animation runner
InitAnim ==
    /\ CommonInit /\ AutomationStarted /\ GradientIdle /\ StateIdle /\ OffIdle
    /\ CallbackIdle /\ LocksIdle
    /\ RelayInit(0) /\ MockSensorInit /\ PumpInit /\ AnimInit /\ LedInit

NextAnim ==
    \/ \E c \in Callers : RunAsyncBegin(c)
    \/ \E c \in Callers : JoinDone(c)
    \/ \E c \in Callers : JoinTimeout(c)
    \/ \E c \in Callers : RunAsyncStart(c)
    \/ \E t \in Tasks : AnimAcquire(t)
    \/ \E t \in Tasks : AnimCheck(t)
    \/ \E t \in Tasks : AnimWrite(t)
    \/ \E t \in Tasks : AnimWriteFault(t)
    \/ \E t \in Tasks : AnimExit(t)

SpecAnim == InitAnim /\ [][NextAnim]_vars

\* a thread inside its frame loop keeps running (sleep(1 / FPS) returns)
AnimFrameStep(t) == AnimCheck(t) \/ AnimWrite(t) \/ AnimWriteFault(t)

\* --- run_async called from the HTTP handlers only: they run on the one
\*     event loop, so a call starts after the previous call has returned
NextAnimSeq ==
    \/ \E c \in Callers : InFlight = {} /\ RunAsyncBegin(c)
    \/ \E c \in Callers : JoinDone(c)
    \/ \E c \in Callers : JoinTimeout(c)
    \/ \E c \in Callers : RunAsyncStart(c)
    \/ \E t \in Tasks : AnimAcquire(t)
    \/ \E t \in Tasks : AnimCheck(t)
    \/ \E t \in Tasks : AnimWrite(t)
    \/ \E t \in Tasks : AnimWriteFault(t)
    \/ \E t \in Tasks : AnimExit(t)

SpecAnimSeq == InitAnim /\ [][NextAnimSeq]_vars

\* --- the animation handlers and the OFF command with the animation
\*     threads running beside them. The HTTP handlers run one after the
\*     other on the event loop; the MQTT command handler runs _off_sync in
\*     a worker thread (asyncio.to_thread), so an HTTP handler can run
\*     while _off_sync is joining
NextOff ==
    \/ \E c \in Callers :
         InFlight = {} /\ off_cmd.path # "http" /\ RunAsyncBegin(c)
    \/ \E c \in Callers : JoinDone(c)
    \/ \E c \in Callers : JoinTimeout(c)
    \/ \E c \in Callers : StartAnimation(c)
    \/ \E p \in OffPaths : OffBegin(p)
    \/ OffJoinDone
    \/ OffJoinTimeout
    \/ OffBlank
    \/ \E t \in Tasks : AnimAcquire(t)
    \/ \E t \in Tasks : AnimCheck(t)
    \/ \E t \in Tasks : AnimWrite(t)
    \/ \E t \in Tasks : AnimWriteFault(t)
    \/ \E t \in Tasks : AnimExit(t)

SpecOff == InitAnim /\ [][NextOff]_vars

\* --- the threads of the core components, each running its operations in
\*     any order and at any speed
NextLocks ==
    \/ \E t \in LockThreads : LockBegin(t)
    \/ \E t \in LockThreads : LockAcquire(t)
    \/ \E t \in LockThreads : LockRelease(t)

SpecLocks == InitAnim /\ [][NextLocks]_vars

\* --- MOCK_MODE: the mock relay (same operations and timer as Relay) with
\*     MockRelayManager's watchdog thread. A relay operation holds the
\*     relay lock for its whole step; the sweep reads the relay inside
\*     `with relay.lock', so nothing moves between its entry and its acquire
InitMockRelay ==
    /\ CommonInit /\ AutomationStarted /\ GradientIdle /\ StateIdle /\ OffIdle
    /\ CallbackIdle
    /\ mock_mode = TRUE
    /\ lk_op = [t \in LockThreads |-> "idle"]
    /\ lk_pc = [t \in LockThreads |-> 0]
    /\ lock_owner = [l \in Locks |-> "none"]
    /\ RelayInit(MaxOn)
    /\ MockSensorInit /\ PumpInit /\ AnimInit /\ LedInit

SweepEntering == lk_op["watchdog"] # "idle" /\ lk_pc["watchdog"] = 1

NextMockRelay ==
    \/ ~SweepEntering /\ lock_owner["relay"] = "none" /\ RelayCommand
    \/ ~SweepEntering /\ lock_owner["relay"] = "none" /\ AutoShutoff
    \/ ~SweepEntering /\ TimerExpire
    \/ ~SweepEntering /\ Advance
    \/ LockBegin("watchdog")
    \/ LockAcquire("watchdog")
    \/ LockRelease("watchdog")

SpecMockRelay == InitMockRelay /\ [][NextMockRelay]_vars

\* the same, with every thread in its frame loop kept running
SpecAnimSeqFair ==
    SpecAnimSeq /\ \A t \in Tasks : WF_vars(AnimFrameStep(t))

\* --- the animation functions called directly, each in a thread of its own
\*     (as the tests do), with any duration >= 0 and an event the caller sets
InitAnimFn ==
    /\ CommonInit /\ AutomationStarted /\ GradientIdle /\ StateIdle /\ OffIdle
    /\ CallbackIdle /\ LocksIdle
    /\ RelayInit(0) /\ MockSensorInit /\ PumpInit
    /\ active_threads = [n \in Names |-> 0]
    /\ tpc = [t \in Tasks |-> "ready"]
    /\ tname \in [Tasks -> Names]
    /\ tdur \in [Tasks -> {0, FiniteDur}]
    /\ cancel = [t \in Tasks |-> FALSE]
    /\ frames = [t \in Tasks |-> 0]
    /\ anim_lock = 0
    /\ strip = 0
    /\ call = [c \in Callers |-> IdleCall]
    /\ LedInit

NextAnimFn ==
    \/ \E t \in Tasks : SetEvent(t)
    \/ \E t \in Tasks : AnimAcquire(t)
    \/ \E t \in Tasks : AnimCheck(t)
    \/ \E t \in Tasks : AnimWrite(t)
    \/ \E t \in Tasks : AnimWriteFault(t)
    \/ \E t \in Tasks : AnimExit(t)

SpecAnimFn == InitAnimFn /\ [][NextAnimFn]_vars

\* the same, with every started thread kept running: a thread waiting for
\* anim_lock gets it once it stays free, a thread in its frame loop goes on
SpecAnimSeqLive ==
    /\ SpecAnimSeq
    /\ \A t \in Tasks : WF_vars(AnimAcquire(t)) /\ WF_vars(AnimFrameStep(t))

\* --- one animation (started directly, any duration) and the one-shot LED
\*     calls of other threads
InitLed ==
    /\ CommonInit /\ AutomationStarted /\ GradientIdle /\ StateIdle /\ OffIdle
    /\ CallbackIdle /\ LocksIdle
    /\ RelayInit(0) /\ MockSensorInit /\ PumpInit
    /\ active_threads = [n \in Names |-> 0]
    /\ tpc = [t \in Tasks |-> IF t = 1 THEN "ready" ELSE "none"]
    /\ \E n \in Names : tname = [t \in Tasks |-> IF t = 1 THEN n ELSE ""]
    /\ \E d \in {0, FiniteDur} : tdur = [t \in Tasks |-> IF t = 1 THEN d ELSE 0]
    /\ cancel = [t \in Tasks |-> FALSE]
    /\ frames = [t \in Tasks |-> 0]
    /\ anim_lock = 0
    /\ strip = 0
    /\ call = [c \in Callers |-> IdleCall]
    /\ LedInit

NextLed ==
    \/ \E t \in Tasks : SetEvent(t)
    \/ \E t \in Tasks : AnimAcquire(t)
    \/ \E t \in Tasks : AnimCheck(t)
    \/ \E t \in Tasks : AnimWriteBegin(t)
    \/ \E t \in Tasks : AnimWriteEnd(t)
    \/ \E t \in Tasks : AnimExit(t)
    \/ \E w \in Writers : ShotCall(w)
    \/ \E w \in Writers : ShotBegin(w)
    \/ \E w \in Writers : ShotEnd(w)

\* every thread keeps running; a thread waiting for LedStrip.lock gets it
\* (the animation sleeps 1 / FPS between two frames with the lock free)
SpecLed ==
    /\ InitLed /\ [][NextLed]_vars
    /\ \A t \in Tasks : WF_vars(AnimWriteBegin(t)) /\ WF_vars(AnimWriteEnd(t))
    /\ \A w \in Writers : SF_vars(ShotBegin(w)) /\ WF_vars(ShotEnd(w))

\* default specification
Init == InitPump
Next == NextPump
Spec == SpecPump


(***************************************************************************)
(* Properties                                                              *)
(***************************************************************************)
IsTick == last_op'[1] = "tick"

SafetyDue == running_since # None /\ now - running_since >= max_runtime

\* C1: at most one animation thread is inside `with leds.anim_lock', the
\* thread that is inside is the holder of the lock, a frame is written only
\* by the holder, and the strip passes from one animation's frames to
\* another's only after the first has left its frame loop (no interleaving),
\* also when a replaced thread has outlived the join timeout.
C1_AnimLockSerializesFrames ==
    /\ [](/\ Cardinality({t \in Tasks : tpc[t] \in InLock}) <= 1
          /\ \A t \in Tasks : tpc[t] \in InLock => anim_lock = t)
    /\ [][last_op' = <<"anim", "frame">> =>
            /\ anim_lock = strip' /\ anim_lock' = strip'
            /\ (strip # 0 /\ strip # strip') =>
                   tpc[strip] \in {"finally", "dead"}]_vars

\* C1 witness: one animation is writing frames while a cancelled, replaced
\* thread that outlived the join timeout and its successor wait for the lock.
C1_Witness ==
    \E t, u, v \in Tasks :
        /\ tpc[t] = "write" /\ frames[t] > 0
        /\ tpc[u] = "ready" /\ cancel[u]
        /\ tpc[v] = "ready" /\ ~cancel[v] /\ u # v /\ tname[u] = tname[v]

\* threads started under name n
Started(n) == {t \in Tasks : tname[t] = n /\ tpc[t] # "none"}

Latest(n) == CHOOSE t \in Started(n) : \A u \in Started(n) : u <= t

\* C2 (as claimed): after run_async(name, f1); run_async(name, f2), once
\* both have settled (the calls have returned, f1's thread has ended, f2's
\* thread is alive) active_threads holds f2's handle under the name.
C2_ReplacedNameHoldsNewHandle ==
    \A n \in Names :
        ( /\ Cardinality(Started(n)) >= 2
          /\ InFlight = {}
          /\ tpc[Latest(n)] \in {"ready", "check", "write"}
          /\ \A t \in Started(n) \ {Latest(n)} : tpc[t] = "dead" /\ cancel[t] )
        => active_threads[n] = Latest(n)

\* C3: a tick in AUTO with the level LOW and the safety limit reached turns
\* the relay OFF, sets DISABLED, clears running_since and does nothing else.
C3_SafetyTrip ==
    [][(IsTick /\ mode = "AUTO" /\ current_level = "LOW" /\ SafetyDue) =>
         /\ relay'.state = "OFF"
         /\ mode' = "DISABLED"
         /\ running_since' = None
         /\ cycle_count' = cycle_count
         /\ last_action_time' = last_action_time
         /\ total_runtime' = total_runtime]_vars

C3_Witness ==
    /\ last_op = <<"tick", "trip">>
    /\ mode = "DISABLED" /\ relay.state = "OFF" /\ running_since = None
    /\ cycle_count >= 1

\* C4 (as claimed): when set_mode(MANUAL) returns the pump relay is OFF and
\* running_since is unset.
C4_ManualForcesPumpOff ==
    last_op = <<"set_mode", "MANUAL">> =>
        relay.state = "OFF" /\ running_since = None

\* C5 (as claimed): after a watchdog sweep a relay with max_on_time > 0 is
\* not ON for max_on_time seconds or longer, however it became ON.
C5_OffByWatchdogAfterMaxOnTime ==
    (last_op[1] = "watchdog" /\ max_on_time > 0 /\ relay.state = "ON")
        => now - on_since < max_on_time

\* C6 (as claimed): current_level changes only to the level of the raw value
\* that the monitor loop has read unchanged for at least debounce_time.
C6_LevelChangesOnlyAfterStableRaw ==
    [][current_level' # current_level =>
         /\ LevelOf(stable_gpio_state) = current_level'
         /\ stime - stable_since >= debounce_time]_vars

\* C7: in MANUAL a loop tick changes neither the relay nor the mode, and as
\* long as the mode stays MANUAL the relay changes only by a relay command.
C7_ManualLoopLeavesRelay ==
    [][mode = "MANUAL" =>
         /\ IsTick => (relay' = relay /\ mode' = mode)
         /\ (mode' = "MANUAL" /\ relay' # relay) => last_op'[1] = "relay"]_vars

\* C7 witness: a MANUAL tick with the level LOW and the off interval over,
\* where AUTO would have started the pump.
C7_Witness ==
    /\ last_op = <<"tick", "manual">>
    /\ current_level = "LOW" /\ relay.state = "OFF"
    /\ now - last_action_time >= off_interval

\* C8: a tick in AUTO with the level OK leaves the relay OFF, and clears
\* running_since if it found the relay ON; so AUTO with the level OK leads to
\* the relay OFF (unless the mode or the level changes first).
C8_WaterOkStopsPump ==
    /\ [][(IsTick /\ mode = "AUTO" /\ current_level = "OK") =>
            /\ relay'.state = "OFF"
            /\ relay.state = "ON" => running_since' = None
            /\ relay.state = "OFF" => running_since' = running_since
            /\ mode' = "AUTO"]_vars
    /\ (mode = "AUTO" /\ current_level = "OK" /\ relay.state = "ON")
          ~> (relay.state = "OFF" \/ mode # "AUTO" \/ current_level # "OK")

C8_Witness ==
    /\ last_op = <<"tick", "ok_off">>
    /\ mode = "AUTO" /\ current_level = "OK"
    /\ relay.state = "OFF" /\ running_since = None /\ cycle_count >= 1

\* what C9 says a tick does with the pump OFF in AUTO and LOW
C9_Effect ==
    IF now - last_action_time >= off_interval
    THEN /\ relay'.state = "ON"
         /\ last_action_time' = now
         /\ cycle_count' = cycle_count + 1
         /\ running_since' = IF running_since = None THEN now
                             ELSE running_since
         /\ total_runtime' = total_runtime
    ELSE /\ relay' = relay
         /\ UNCHANGED <<last_action_time, cycle_count, running_since,
                        total_runtime, mode, ledVars>>

\* C9 (as claimed): in AUTO with the level LOW and the relay OFF, a tick at
\* which the off interval is over switches the pump on and counts the cycle;
\* an earlier tick changes nothing.
C9_Original ==
    [][(IsTick /\ mode = "AUTO" /\ current_level = "LOW"
          /\ relay.state = "OFF") => C9_Effect]_vars

\* C9 (amended): the same, for a tick at which the safety limit is not
\* reached (running_since unset or younger than max_runtime).
C9_OffIntervalStartsPump ==
    [][(IsTick /\ mode = "AUTO" /\ current_level = "LOW"
          /\ relay.state = "OFF" /\ ~SafetyDue) => C9_Effect]_vars

\* C9 witness: the pump was started for a second cycle with running_since
\* still set from the first.
C9_Witness ==
    /\ last_op = <<"tick", "on">>
    /\ relay.state = "ON" /\ last_action_time = now
    /\ cycle_count = 2 /\ running_since # None /\ running_since < now

C11_RunningSinceIsCurrentDwell ==
    running_since # None => (relay.state = "ON" /\ running_since = on_since)

\* C12: when set_mode(DISABLED) returns the mode is DISABLED, the pump relay
\* is OFF (state and pin) with no shutoff timer, and running_since is unset.
C12_DisabledForcesPumpOff ==
    last_op = <<"set_mode", "DISABLED">> =>
        /\ mode = "DISABLED"
        /\ relay.state = "OFF" /\ relay.pin = GpioLevel("OFF")
        /\ running_since = None

\* C12 witness: set_mode(DISABLED) came in AUTO with the level LOW, inside
\* the first ON dwell of the pump (started at this instant by the loop).
C12_Witness ==
    /\ last_op = <<"set_mode", "DISABLED">>
    /\ current_level = "LOW" /\ cycle_count = 1 /\ total_runtime = 0
    /\ last_action_time = now /\ now > 0
    /\ relay.state = "OFF" /\ running_since = None

\* C13 (as claimed): with the relay lock free, a shutoff timer and deadline
\* are pending if and only if the relay is ON and max_on_time > 0.
C13_TimerPendingIffOn ==
    (relay.shutoff_timer # "none" /\ relay.shutoff_time # None)
        <=> (relay.state = "ON" /\ max_on_time > 0)

\* C14: the cancel event is tested at the top of every frame, before the
\* frame is computed and written: a task enters a frame write only from the
\* check and only with its event clear, a write is followed by the next
\* check, and the check that finds the event set writes nothing, returns and
\* releases the lock.  So the holder of the lock writes at most one frame
\* after its event is set, and then gives the lock up.
C14_CancelCheckedEachFrame ==
    /\ [][\A t \in Tasks :
            /\ (tpc[t] # "write" /\ tpc'[t] = "write")
                   => (tpc[t] = "check" /\ ~cancel[t])
            /\ (tpc[t] = "write" /\ tpc'[t] # "write")
                   => tpc'[t] \in {"check", "finally"}
            /\ (tpc[t] = "check" /\ cancel[t] /\ tpc'[t] # "check")
                   => (tpc'[t] = "finally" /\ anim_lock' = 0
                         /\ strip' = strip)
            /\ (last_op' = <<"anim", "frame">> /\ strip' = t)
                   => tpc[t] = "write"]_vars
    /\ \A t \in Tasks :
          (cancel[t] /\ anim_lock = t) ~> (anim_lock # t)

\* C14 witness: an animation that has written frames found its event set at
\* a check and left the frame loop.
C14_Witness ==
    \E t \in Tasks :
        /\ last_op = <<"anim", "cancelled">>
        /\ tpc[t] = "finally" /\ cancel[t] /\ strip = t /\ anim_lock = 0

\* C15: a task that has left its animation function (completed, cancelled or
\* write fault) does not hold anim_lock, and once it has exited its handle is
\* under no name in active_threads.  A write fault takes the faulting task
\* out of the frame loop to the wrapper's finally and changes no other task;
\* an exited task stays exited, and a task starts only in run_async.
C15_ExitReleasesLockAndHandle ==
    /\ [](\A t \in Tasks :
            /\ tpc[t] \in {"finally", "dead"} => anim_lock # t
            /\ tpc[t] = "dead" => \A n \in Names : active_threads[n] # t)
    /\ [][\A t \in Tasks :
            /\ (last_op' = <<"anim", "write_fault">> /\ tpc'[t] # tpc[t])
                   => (tpc[t] = "write" /\ tpc'[t] = "finally"
                         /\ anim_lock = t /\ anim_lock' = 0
                         /\ \A u \in Tasks \ {t} : tpc'[u] = tpc[u])
            /\ tpc[t] = "dead" => tpc'[t] = "dead"
            /\ (tpc[t] = "none" /\ tpc'[t] # "none")
                   => last_op' = <<"run_async", "start">>]_vars

\* C15 witness: a task has exited without being cancelled and before any
\* frame reached the strip, i.e. its first pixel write raised.
C15_Witness ==
    \E t \in Tasks :
        /\ tpc[t] = "dead" /\ ~cancel[t] /\ strip = 0
        /\ anim_lock = 0 /\ active_threads[tname[t]] = 0

\* C16 (as claimed): at a per-frame check with the event clear, an animation
\* started with duration 0 goes on to write the frame (it never ends by
\* itself), and one started with duration > 0 ends exactly if the elapsed
\* run has reached the duration; for sunrise / sunset and the gradients.
C16_DurationBoundsRun ==
    [][\A t \in Tasks :
         (tpc[t] = "check" /\ ~cancel[t] /\ tpc'[t] # "check") =>
             IF tdur[t] = 0 THEN tpc'[t] = "write"
             ELSE (tpc'[t] = "finally") <=> (frames[t] >= tdur[t])]_vars

\* an animation started with duration 0 holds anim_lock and is not cancelled
EndlessHolder ==
    \E u \in Tasks : anim_lock = u /\ tdur[u] = 0 /\ ~cancel[u]
                      /\ ~IsSun(tname[u])

\* C17 (as claimed): every started animation eventually acquires anim_lock,
\* whatever runs under the other names, and no two hold it together.
C17_Original ==
    /\ [](Cardinality({t \in Tasks : tpc[t] \in InLock}) <= 1)
    /\ \A t \in Tasks : (tpc[t] = "ready") ~> (anim_lock = t)

\* C17 (amended): no two animations hold anim_lock together; a started
\* animation eventually acquires the lock, and a holder eventually returns,
\* unless an animation of duration 0 that nobody cancels holds the lock.
C17_BothRunUnlessEndlessHolder ==
    /\ [](Cardinality({t \in Tasks : tpc[t] \in InLock}) <= 1)
    /\ \A t \in Tasks :
          /\ (tpc[t] = "ready") ~> (anim_lock = t \/ EndlessHolder)
          /\ (anim_lock = t) ~> (tpc[t] \in {"finally", "dead"}
                                   \/ EndlessHolder)

\* C17 witness: a sunrise that had to wait behind a gradient animation is
\* writing its frames after the gradient animation ran to its end uncancelled.
C17_Witness ==
    \E t, u \in Tasks :
        /\ tname[t] = "gradient_shift" /\ tpc[t] \in {"finally", "dead"}
        /\ ~cancel[t] /\ t < u
        /\ tname[u] = "sunrise" /\ tpc[u] = "check" /\ strip = u
        /\ frames[u] > 0 /\ ~cancel[u]

\* C18: a one-shot LedStrip call (set_rgb, set_hsv, set_brightness,
\* set_pixel_array, set_pixel, off) never takes or releases anim_lock and
\* always completes, also while an animation holds anim_lock for ever; at
\* most one thread is inside a strip write, and it holds LedStrip.lock.
C18_OneShotsBypassAnimLock ==
    /\ [](/\ Cardinality(writing) <= 1
          /\ \A x \in writing : hw_lock = x)
    /\ [][last_op'[1] \in {"shot_call", "shot_begin", "shot_end"}
            => (anim_lock' = anim_lock /\ tpc' = tpc)]_vars
    /\ \A w \in Writers : (shot[w] # "idle") ~> (shot[w] = "idle")

\* C18 witness: a one-shot call has just completed while the animation
\* holds anim_lock and is about to write its next frame.
C18_Witness ==
    /\ last_op[1] = "shot_end"
    /\ anim_lock # 0 /\ tpc[anim_lock] = "write" /\ frames[anim_lock] > 0
    /\ \E w \in Writers : shot[w] # "idle"

C20_CleanupLeavesRelaysOff ==
    last_op[1] = "cleanup" =>
        /\ ~watchdog_running
        /\ relay.shutoff_timer = "none" /\ relay.shutoff_time = None
        /\ relay.state = "OFF" /\ relay.pin = GpioLevel("OFF")

\* C21: on_state_change is invoked exactly once for each change of
\* current_level, with the new level, and not when a debounced reading gives
\* the level already held; so the invocations carry alternating levels, the
\* last one the current level (the level is OK before the first).
C21_CallbackOncePerChange ==
    /\ [][IF current_level' # current_level
           THEN callbacks' = Append(callbacks, current_level')
           ELSE callbacks' = callbacks]_vars
    /\ [](/\ \A i \in 1..(Len(callbacks) - 1) : callbacks[i] # callbacks[i + 1]
          /\ current_level = IF callbacks = <<>> THEN "OK"
                             ELSE callbacks[Len(callbacks)])

\* C21 witness: after two reported changes a debounced reading gave the
\* level already held and the callback was not invoked.
C21_Witness ==
    /\ last_op = <<"level_same", "">>
    /\ Len(callbacks) = 2 /\ callbacks[2] = current_level

\* C22: turn_on returns True exactly if the relay was OFF, turn_off returns
\* True exactly if it was ON; a call that returns True leaves the relay in
\* the requested state, and a call that returns False changes neither the
\* state, nor the pin, nor the shutoff timer and its deadline.
C22_TurnOnOffReturnChange ==
    [][(last_op'[1] = "relay" /\ last_op'[2] \in {"turn_on", "turn_off"}) =>
         LET want == IF last_op'[2] = "turn_on" THEN "ON" ELSE "OFF"
         IN  /\ last_op'[3] \in {"True", "False"}
             /\ (last_op'[3] = "True") <=> (relay.state # want)
             /\ relay'.state = want
             /\ last_op'[3] = "False" => relay' = relay]_vars

\* C22 witness: turn_on was called on a relay that had been ON for a while
\* with its shutoff timer running; it returned False and the deadline is
\* still the one of the first turn_on.
C22_Witness ==
    /\ last_op = <<"relay", "turn_on", "False">>
    /\ relay.state = "ON" /\ relay.shutoff_timer = "armed"
    /\ now > on_since /\ relay.shutoff_time = on_since + max_on_time

\* C23: constructing the automation with a relay id the manager does not hold
\* raises ValueError; the constructor starts no thread and performs no relay
\* operation, and a failed construction never has an automation thread.
C23_UnknownRelayRaises ==
    /\ [][last_op'[1] = "construct" =>
            /\ last_op'[2] \notin get_relay_ids => automation' = "ValueError"
            /\ automation_thread = "none" /\ automation_thread' = "none"
            /\ UNCHANGED relayVars]_vars
    /\ [](automation = "ValueError" => automation_thread = "none")

\* C23 witness: the constructor was given the id "other" and raised.
C23_Witness ==
    /\ last_op = <<"construct", "other">>
    /\ automation = "ValueError" /\ automation_thread = "none"
    /\ relay.state = "OFF"

\* C24: reset_statistics sets cycle_count and total_runtime to zero and
\* leaves mode, running_since, last_action_time and the pump relay unchanged.
C24_ResetStatisticsFrame ==
    [][last_op'[1] = "reset_statistics" =>
         /\ total_runtime' = 0 /\ cycle_count' = 0
         /\ UNCHANGED <<mode, running_since, last_action_time, relay>>]_vars

\* C24 witness: the statistics were reset while the pump was running in AUTO
\* mode in a cycle that had been counted.
C24_Witness ==
    /\ last_op = <<"reset_statistics", "">>
    /\ mode = "AUTO" /\ relay.state = "ON" /\ running_since # None
    /\ last_action_time > 0 /\ cycle_count = 0

\* the call of render_gradient has returned, and it was given >= 2 stops
Rendered == last_op = <<"render_gradient", "">> /\ Len(stops) >= 2

ColorOf(st) == <<st.r, st.g, st.b>>

\* the reorderings of a list
Reorderings(ss) ==
    {[i \in 1..Len(ss) |-> ss[f[i]]] :
        f \in {g \in [1..Len(ss) -> 1..Len(ss)] :
                 \A i, j \in 1..Len(ss) : g[i] = g[j] => i = j}}

DistinctPositions(ss) ==
    \A i, j \in 1..Len(ss) : ss[i].position = ss[j].position => i = j

\* C25: with pixel_count = 1 the result is exactly one pixel, and it has the
\* colour of a stop of smallest position.
C25_SinglePixelIsFirstStop ==
    (Rendered /\ pixel_count = 1) =>
        /\ Len(colors) = 1
        /\ \E j \in 1..Len(stops) :
             /\ \A o \in 1..Len(stops) : stops[j].position <= stops[o].position
             /\ colors[1] = ColorOf(stops[j])

\* C26 as stated: every reordering of the stops renders to the same output.
C26_Original ==
    Rendered =>
        \A q \in Reorderings(stops) :
            render_gradient(q, pixel_count, offset) = colors

\* C26: for stops of pairwise distinct positions, every reordering of the
\* stops (the one sorted by position among them) renders to the same output.
C26_OrderIrrelevantIfDistinct ==
    (Rendered /\ DistinctPositions(stops)) =>
        \A q \in Reorderings(stops) :
            render_gradient(q, pixel_count, offset) = colors

\* C26 witness: three stops of distinct positions given in descending order
\* were rendered to three pixels with a non-zero offset.
C26_Witness ==
    /\ Rendered /\ Len(stops) = 3 /\ pixel_count = 3 /\ offset = 1
    /\ stops[1].position > stops[2].position
    /\ stops[2].position > stops[3].position
    /\ Len(colors) = 3 /\ colors[1] # colors[2]

\* what get_snapshot returns for the attributes st
SnapshotOf(st) ==
    [mode |-> st.mode, rgb |-> st.rgb, brightness |-> st.brightness,
     active_animation |-> st.active_animation,
     last_updated |-> st.last_updated]

\* what to_mqtt_payload returns for the attributes st
PayloadOf(st) ==
    IF st.mode = "off" THEN [state |-> "OFF"]
    ELSE [state |-> "ON", brightness |-> (st.brightness * 255) \div 100,
          color |-> st.rgb,
          effect |-> IF st.active_animation = "None" THEN "none"
                     ELSE st.active_animation]

\* the attributes st after update(**kw) at time t: each field named by a key
\* takes the value given, last_updated is t, nothing else changes
Updated(st, kw, t) ==
    [f \in StateFields |->
       IF f = "last_updated" THEN t
       ELSE IF \E i \in 1..Len(KwargsOf(kw)) : KwargsOf(kw)[i][1] = f
            THEN LET i == CHOOSE i \in 1..Len(KwargsOf(kw)) :
                              KwargsOf(kw)[i][1] = f
                 IN  KwargsOf(kw)[i][2]
            ELSE st[f]]

\* C27: every update call takes the attributes from the state the last
\* finished update left to that state with all its valid fields and
\* last_updated set (unknown and private keys add or change nothing), and
\* every get_snapshot and to_mqtt_payload returns the dictionary of a state
\* left by a finished update, never of a state inside an update call.
C27_UpdateAtomicForReaders ==
    /\ [][\A u \in Updaters :
            (upd[u].pc = "loop" /\ upd'[u].pc = "idle") =>
                led_state' = Updated(committed, upd[u].kw, now)]_vars
    /\ [][(rd.pc = "reading" /\ rd'.pc = "done") =>
            rd'.out = IF rd.op = "get_snapshot" THEN SnapshotOf(committed)
                      ELSE PayloadOf(committed)]_vars
    /\ [](DOMAIN led_state = StateFields)

\* C27 witness: a snapshot was returned that shows the update
\* (mode="sunrise", _lock=.., invalid_field=.., active_animation="sunrise")
\* whole, stamped after the start, while the next update is under way.
C27_Witness ==
    /\ rd.pc = "done" /\ rd.op = "get_snapshot"
    /\ rd.out.mode = "sunrise" /\ rd.out.active_animation = "sunrise"
    /\ rd.out.last_updated > 0
    /\ \E u \in Updaters : upd[u].pc = "loop" /\ upd[u].i = 1
    /\ led_state.mode # rd.out.mode

\* C28: a loop tick in DISABLED that finds the pump relay ON turns it OFF and
\* clears running_since; one that finds it OFF changes neither the relay nor
\* a field of the automation; so a relay that is ON under DISABLED is OFF
\* after the next tick (or the mode has been changed before).
C28_DisabledTickStopsPump ==
    /\ [][(IsTick /\ mode = "DISABLED") =>
            IF relay.state = "ON"
            THEN /\ relay'.state = "OFF" /\ relay'.pin = GpioLevel("OFF")
                 /\ running_since' = None
                 /\ mode' = "DISABLED"
            ELSE UNCHANGED <<relay, mode, running_since, total_runtime,
                             cycle_count, last_action_time>>]_vars
    /\ (mode = "DISABLED" /\ relay.state = "ON")
          ~> (relay.state = "OFF" \/ mode # "DISABLED")

\* C28 witness: the relay was switched ON by an external command under
\* DISABLED, and the loop tick has just switched it OFF again.
C28_Witness ==
    /\ last_op = <<"tick", "disabled_off">>
    /\ mode = "DISABLED" /\ relay.state = "OFF" /\ running_since = None
    /\ now > 0

\* C29: the mode changes only in set_mode and in the safety trip of a loop
\* tick; a tick changes the mode only by the safety trip, which is taken
\* only in AUTO with the level LOW and leaves the mode DISABLED.
C29_ModeChangesOnlyBySetModeOrTrip ==
    /\ [][mode' # mode =>
            (last_op'[1] = "set_mode" \/ last_op' = <<"tick", "trip">>)]_vars
    /\ [][IsTick =>
            IF last_op'[2] = "trip"
            THEN mode = "AUTO" /\ current_level = "LOW" /\ mode' = "DISABLED"
            ELSE mode' = mode]_vars

\* C29 witness: the safety trip has just disabled the automation.
C29_Witness ==
    /\ last_op = <<"tick", "trip">>
    /\ mode = "DISABLED" /\ current_level = "LOW"
    /\ relay.state = "OFF" /\ running_since = None

\* the pin level is the one mapped from the state
PinMatches(r) == r.pin = GpioLevel(r.state)

\* the sweep finds the relay ON at or past its deadline and forces it OFF
ForcedOff ==
    /\ max_on_time > 0 /\ relay.state = "ON"
    /\ relay.shutoff_time # None /\ now >= relay.shutoff_time

\* C30 as stated: the operations keep the pin at the mapped level and every
\* change of state writes it; a sweep leaves the pin at the mapped level,
\* and a sweep that finds the pin altered leaves the state unchanged.
C30_Original ==
    /\ [][(last_op'[1] # "pin_altered" /\ PinMatches(relay))
            => PinMatches(relay')]_vars
    /\ [][relay'.state # relay.state => PinMatches(relay')]_vars
    /\ [][last_op'[1] = "watchdog" =>
            /\ PinMatches(relay')
            /\ ~PinMatches(relay) => relay'.state = relay.state]_vars

\* C30: as above, but a sweep that finds the pin altered leaves the state
\* unchanged unless it finds the relay ON at or past its deadline, which it
\* forces OFF (pin at the OFF level).
C30_PinFollowsState ==
    /\ [][(last_op'[1] # "pin_altered" /\ PinMatches(relay))
            => PinMatches(relay')]_vars
    /\ [][relay'.state # relay.state => PinMatches(relay')]_vars
    /\ [][last_op'[1] = "watchdog" =>
            /\ PinMatches(relay')
            /\ relay'.state = IF ForcedOff THEN "OFF" ELSE relay.state]_vars

\* C30 witness: the pin of the relay, ON with time left, was altered, and
\* the sweep has driven it back to the ON level.
C30_Witness ==
    /\ last_op = <<"watchdog", "recovery">>
    /\ relay.state = "ON" /\ relay.pin = GpioLevel("ON")
    /\ relay.shutoff_timer = "armed" /\ now < relay.shutoff_time
    /\ now > on_since

\* C31 (as claimed): the animation thread started last under a name, while
\* it is alive, is the handle registered under that name in active_threads
\* (thread and cancel event), whatever a replaced predecessor does.
C31_LiveTaskIsRegistered ==
    \A n \in Names :
        (Started(n) # {} /\ Alive(Latest(n)))
            => active_threads[n] = Latest(n)


\* C32 (as claimed): once an OFF command has set the registered events,
\* joined the threads and blanked the strip, no animation thread that was
\* started before that command writes another frame.
C32_NoFrameAfterOff ==
    [][last_op' = <<"anim", "frame">> => strip' \notin dark]_vars


\* C33 (as claimed): an auto-shutoff callback turns the relay OFF only in the
\* ON period whose turn_on armed its timer, that is, not before max_on_time
\* has passed since the relay last became ON.
C33_ShutoffEndsOwnPeriod ==
    [][(last_op'[1] = "auto_shutoff" /\ relay.state = "ON"
            /\ relay'.state = "OFF")
          => (on_since # None /\ now >= on_since + max_on_time)]_vars


\* C34 (as claimed): the automation loop never sleeps while it holds the
\* automation lock, in any mode: the lock is never held by a sleeping loop.
C34_LoopNeverSleepsInLock ==
    automation_thread = "alive" => auto_lock # "loop"


\* C35 (as claimed): on_state_change runs with the sensor lock released, so
\* whenever the callback has been called and has not returned, the sensor
\* lock is free (and a get_level() inside the callback can take it).
C35_CallbackRunsUnlocked ==
    cb # "idle" => sensor_lock = "free"


\* C36 (as claimed): an animation thread whose cancel event is set while it
\* waits for anim_lock leaves its animation function, whoever holds the lock
\* and for however long.
C36_CancelledWaiterExits ==
    \A t \in Tasks :
        (cancel[t] /\ tpc[t] = "ready") ~> (tpc[t] \in {"finally", "dead"})


\* C37: whenever the automation lock is free and the mode is DISABLED,
\* running_since is unset.
C37_DisabledHasNoDwell ==
    (auto_lock = "free" /\ mode = "DISABLED") => running_since = None

\* C37 witness: the safety trip has just ended a run of max_runtime and
\* disabled the automation, and the loop has left the lock
C37_Witness ==
    /\ last_op = <<"tick", "trip">>
    /\ mode = "DISABLED"
    /\ auto_lock = "free"
    /\ running_since = None


\* the thread that t waits for ("none": t is not waiting)
Holder(t) == IF t = "none" \/ Wants(t) = "none" THEN "none"
             ELSE lock_owner[Wants(t)]

\* the threads reached from t along `waits for' (a thread waits for one
\* lock and a lock has one holder; there are eight threads)
HolderChain(t) ==
    LET h1 == Holder(t)
        h2 == Holder(h1)
        h3 == Holder(h2)
        h4 == Holder(h3)
        h5 == Holder(h4)
        h6 == Holder(h5)
        h7 == Holder(h6)
        h8 == Holder(h7)
    IN  {h1, h2, h3, h4, h5, h6, h7, h8}

\* C38: no reachable state has a cycle of threads each waiting for a lock
\* the next one holds: no thread is reached by its own chain of holders.
C38_NoWaitCycle ==
    \A t \in LockThreads : t \notin HolderChain(t)

\* C38 witness: the loop, holding the automation lock, waits for the sensor
\* lock that the monitor holds, and a caller waits for the automation lock
C38_Witness ==
    /\ lock_owner["pump"] = "loop" /\ WaitsFor("loop", "monitor")
    /\ WaitsFor("caller", "loop")
    /\ lock_owner["anim"] = "anim" /\ WaitsFor("anim", "shot")
    /\ lock_owner["relay"] = "watchdog" /\ WaitsFor("timer", "watchdog")


\* C40 (as claimed): a watchdog sweep, also one that forces a relay OFF,
\* goes on to release the relay lock it took: the watchdog thread never
\* waits for a lock that it holds itself.
C40_SweepNeverWaitsForItself ==
    ~WaitsFor("watchdog", "watchdog")


\* C39 (as claimed): led_state.active_animation names an animation only
\* while a thread is registered under that name in active_threads (looked
\* at between the handlers, when no run_async or OFF command is under way).
C39_ActiveAnimationIsRegistered ==
    (InFlight = {} /\ off_cmd.pc = "idle"
        /\ led_state.active_animation # "None")
        => active_threads[led_state.active_animation] # 0

=============================================================================
